---------------------------- MODULE Spec2Model ----------------------------
(***************************************************************************)
(* Soundpad Commander: the shortcut-to-action dispatch core.               *)
(*                                                                         *)
(*   - SoundpadClient      (Soundpad/soundpad_client.py)                   *)
(*   - KeyboardListener    (Soundpad/keyboard_listener_keyboard.py)        *)
(*   - ConfigManager       (Soundpad/config_manager.py)                    *)
(*   - SoundpadRuntime     (3- Soundpad-run.py)                            *)
(*                                                                         *)
(* Every thread of the program is a process with a program counter pc[t]   *)
(* and a stack of return labels stk[t].  One step is one statement that    *)
(* reads or writes shared state; CPython may switch threads between any    *)
(* two of them.                                                            *)
(***************************************************************************)
EXTENDS Integers, Sequences, FiniteSets, TLC

(***************************************************************************)
(* Bounds of the model.                                                    *)
(***************************************************************************)
\* handles the operating system hands out before os.open fails (EMFILE)
MaxHandles == 2

\* calls that the threads of SpecRegistry make into the KeyboardListener
MaxCalls == 4

\* events of the environment in a run of the program: key events, periods of
\* the supervising loop, changes of the remote process, a signal
MaxEvents == 2

(***************************************************************************)
(* Threads.  The keyboard backend delivers hotkey callbacks on its own     *)
(* thread ("hook"); the supervising loop runs on the main thread ("loop"); *)
(* "aux" is one more thread that calls into the KeyboardListener.          *)
(***************************************************************************)
Threads == {"hook", "loop", "aux"}

\* the threads that call the client
ClientThreads == {"hook", "loop"}

Handles == 1..MaxHandles

VARIABLES
    \* ---- SoundpadClient and the named pipe -------------------------------
    pipe,       \* self.pipe: 0 is None, otherwise the handle
    openH,      \* handles that are open at the operating system
    broken,     \* open handles whose server end is gone
    buf,        \* per handle: response bytes written and not yet read
    srv,        \* the remote process: "up", "down" (no pipe), "denied" (no access)
    \* ---- KeyboardListener and the keyboard backend ------------------------
    running,                    \* self.running
    registered_combinations,    \* the dict, as the sequence of its values in insertion order
    hotkey_handlers,            \* the list of (hotkey_string, handler)
    kbHooks,                    \* the hooks that are live in the keyboard backend
    lock,                       \* self._lock: the thread that holds it, "none" if free
    \* ---- threads ------------------------------------------------------------
    pc,         \* per thread: the statement it is at
    stk,        \* per thread: the return labels of the calls it is in
    exc,        \* per thread: the exception that is propagating, "none" if none
    res,        \* per thread: the value the last call returned
    req,        \* per thread: `request` of send_request, NoReq outside a call
    first,      \* per thread: `first_byte` of send_request
    hnew,       \* per thread: the handle os.open returned, not yet stored
    arg,        \* per thread: the arguments of the KeyboardListener method it is in
    it,         \* per thread: the position of the loop it is in
    \* ---- ConfigManager and SoundpadRuntime -----------------------------------
    config_data,        \* the configuration file, as ConfigManager loads it
    issues,             \* the conflicts validate_config reported
    soundpad_client,    \* self.soundpad_client is not None
    rt_running,         \* SoundpadRuntime.running
    soundpad_connected, \* self.soundpad_connected, the cached liveness flag
    shortcuts_loaded,   \* self.shortcuts_loaded
    action_log,         \* self.action_log
    stats,              \* self.stats
    fr,         \* per thread: the locals of the runtime function it is in
    \* ---- the environment of the program -------------------------------------
    calls       \* the events of the environment so far: calls into the component
                \* under study, key events, periods of the supervising loop

clientVars == <<pipe, openH, broken, buf, srv>>
regVars == <<running, registered_combinations, hotkey_handlers, kbHooks, lock>>
threadVars == <<pc, stk, exc, res, req, first, hnew>>
regLocals == <<arg, it>>
rtVars == <<config_data, issues, soundpad_client, rt_running, soundpad_connected,
            shortcuts_loaded, action_log, stats, fr>>
vars == <<clientVars, regVars, threadVars, regLocals, rtVars, calls>>

\* what no statement of SoundpadClient touches
outsideClient == <<regVars, regLocals, rtVars, calls>>

(***************************************************************************)
(* The wire.  A response is read in two pieces, its first byte and the     *)
(* remainder; the stream of a handle is the sequence of pieces not yet     *)
(* read.  A piece is [by, val, part]: the thread whose request it answers, *)
(* the response text, and 1 (first byte), 2 (remainder) or 3 (one byte cut *)
(* from a remainder by a one-byte read).                                   *)
(***************************************************************************)
NoReq == [verb |-> "none", cat |-> 0]

NoArg == [op |-> "none", id |-> "none", keys |-> <<>>, cb |-> "none", n |-> 0]

\* the locals of a function of the runtime: the bindings setup_keyboard_shortcuts
\* has still to register, and for a hotkey callback its name, current_status,
\* the exception `e` its except clause caught, the requests it has passed to
\* the client, and the counters and the length of the log as they were when it
\* was entered; for log_action the value of self.action_log[-50:]
NoFrame ==
    [todo |-> <<>>, cb |-> "none", status |-> "none", e |-> "none",
     sent |-> 0, s0 |-> 0, p0 |-> 0, e0 |-> 0, l0 |-> 0, recent |-> <<>>]

\* a configuration file without categories and shortcuts; settings_ok says
\* that AppSettings accepts the `settings` section
NoConfig == [categories |-> <<>>, stop_playback |-> <<>>, settings_ok |-> TRUE]

\* what the remote process may answer; "BAD" stands for bytes that are not
\* UTF-8.  A remote process that is there answers IsAlive() with R-200
Responses(cmd) ==
    IF cmd.verb = "GetPlayStatus"
    THEN {"PLAYING", "PAUSED", "R-404"}
    ELSE IF cmd.verb = "IsAlive"
    THEN {"R-200"}
    ELSE {"R-200", "R-404", "BAD"}

Piece(t, v, p) == [by |-> t, val |-> v, part |-> p]

Wire(t, v) == <<Piece(t, v, 1), Piece(t, v, 2)>>

\* the text is exactly one response, whole
Whole(r) ==
    /\ Len(r) = 2
    /\ r[1].part = 1 /\ r[2].part = 2
    /\ r[1].val = r[2].val /\ r[1].by = r[2].by

FirstChar(v) == IF v \in {"R-200", "R-404"} THEN "R" ELSE IF v = "BAD" THEN "?" ELSE "P"

\* response.startswith("R")
StartsWithR(r) == Len(r) >= 1 /\ r[1].part = 1 /\ FirstChar(r[1].val) = "R"

\* bytes.decode('utf-8') raises UnicodeDecodeError
Undecodable(r) == \E i \in 1..Len(r) : r[i].val = "BAD"

\* SoundpadClient._is_success: response.startswith("R-200")
IsSuccess(r) ==
    /\ Len(r) >= 2
    /\ StartsWithR(r)
    /\ r[2].part = 2 /\ r[2].val = "R-200"

(***************************************************************************)
(* Control: goto, call, return.                                            *)
(***************************************************************************)
Goto(t, l) == /\ pc' = [pc EXCEPT ![t] = l]
              /\ UNCHANGED stk

Call(t, entry, back) == /\ pc' = [pc EXCEPT ![t] = entry]
                        /\ stk' = [stk EXCEPT ![t] = <<back>> \o @]

Return(t) == /\ pc' = [pc EXCEPT ![t] = Head(stk[t])]
             /\ stk' = [stk EXCEPT ![t] = Tail(@)]

Raise(t, e) == exc' = [exc EXCEPT ![t] = e]

(***************************************************************************)
(* SoundpadClient.init                                                     *)
(***************************************************************************)
\* init() was called on its own (by __enter__), not by send_request
Direct(t) == req[t] = NoReq

\* `if self.pipe is None`; with a handle held init() returns, send_request
\* goes on
ClientInit(t) ==
    /\ pc[t] = "init"
    /\ IF pipe = 0
       THEN Goto(t, "open")
       ELSE IF Direct(t) THEN Return(t) ELSE Goto(t, "write")
    /\ UNCHANGED <<clientVars, req, first, hnew, exc, res, outsideClient>>

\* the exception init() raises for the state of the remote process
OpenError(s) ==
    CASE s = "down"   -> "FileNotFoundError"
      [] s = "denied" -> "PermissionError"
      [] OTHER        -> "OSError"

\* os.open(PIPE_PATH, flags): the lowest free descriptor, or an exception that
\* leaves init(): it leaves send_request too (init is called outside its try)
\* and is caught by send_request_safe, which calls self.uninit(); it leaves
\* __enter__, which catches nothing
ClientOpen(t) ==
    /\ pc[t] = "open"
    /\ IF srv = "up" /\ Handles \ openH # {}
       THEN LET h == CHOOSE x \in Handles \ openH : \A y \in Handles \ openH : x <= y
            IN /\ openH' = openH \cup {h}
               /\ hnew' = [hnew EXCEPT ![t] = h]
               /\ Goto(t, "assign")
               /\ UNCHANGED <<exc>>
       ELSE /\ Raise(t, OpenError(srv))
            /\ IF Direct(t) THEN Return(t) ELSE Goto(t, "un2_check")
            /\ UNCHANGED <<openH, hnew>>
    /\ UNCHANGED <<pipe, broken, buf, srv, req, first, res, outsideClient>>

\* self.pipe = <the handle os.open returned>
\* (the bytes of a handle the client no longer refers to can never be read)
ClientAssign(t) ==
    /\ pc[t] = "assign"
    /\ pipe' = hnew[t]
    /\ hnew' = [hnew EXCEPT ![t] = 0]
    /\ buf' = IF pipe = 0 THEN buf ELSE [buf EXCEPT ![pipe] = <<>>]
    /\ IF Direct(t) THEN Return(t) ELSE Goto(t, "write")
    /\ UNCHANGED <<openH, broken, srv, req, first, exc, res, outsideClient>>

(***************************************************************************)
(* SoundpadClient.send_request: the try block                             *)
(***************************************************************************)
\* an exception that neither send_request's `except OSError` nor
\* send_request_safe's `except (OSError, FileNotFoundError, PermissionError)`
\* catches
Escapes(e) == e \in {"TypeError", "UnicodeDecodeError"}

\* the exception leaves send_request_safe
Escape(t, e) ==
    /\ Raise(t, e)
    /\ Return(t)
    /\ first' = [first EXCEPT ![t] = <<>>]

\* `except OSError as e: self.uninit()` of send_request
Caught(t) ==
    /\ Raise(t, "OSError")
    /\ Goto(t, "un1_check")
    /\ first' = [first EXCEPT ![t] = <<>>]

\* os.write(self.pipe, request_bytes); the remote process answers what it is sent
ClientWrite(t) ==
    /\ pc[t] = "write"
    /\ IF pipe = 0
       THEN /\ Escape(t, "TypeError")
            /\ UNCHANGED buf
       ELSE IF pipe \notin openH \/ pipe \in broken
       THEN /\ Caught(t)
            /\ UNCHANGED buf
       ELSE /\ \E v \in Responses(req[t]) :
                  buf' = [buf EXCEPT ![pipe] = @ \o Wire(t, v)]
            /\ Goto(t, "read1")
            /\ UNCHANGED <<exc, first>>
    /\ UNCHANGED <<pipe, openH, broken, srv, req, hnew, res, outsideClient>>

\* first_byte = os.read(self.pipe, 1); `if not first_byte: raise OSError`
ClientRead1(t) ==
    /\ pc[t] = "read1"
    /\ IF pipe = 0
       THEN /\ Escape(t, "TypeError")
            /\ UNCHANGED buf
       ELSE IF pipe \notin openH
       THEN /\ Caught(t)
            /\ UNCHANGED buf
       ELSE IF buf[pipe] # <<>>
       THEN LET p == Head(buf[pipe])
            IN /\ IF p.part = 1
                  THEN /\ first' = [first EXCEPT ![t] = <<p>>]
                       /\ buf' = [buf EXCEPT ![pipe] = Tail(@)]
                  ELSE /\ first' = [first EXCEPT ![t] = <<Piece(p.by, p.val, 3)>>]
                       /\ buf' = buf
               /\ Goto(t, "read2")
               /\ UNCHANGED exc
       ELSE /\ pipe \in broken        \* otherwise the read blocks
            /\ Caught(t)
            /\ UNCHANGED buf
    /\ UNCHANGED <<pipe, openH, broken, srv, req, hnew, res, outsideClient>>

\* remaining_data = os.read(self.pipe, 8192); decode; return response
ClientRead2(t) ==
    /\ pc[t] = "read2"
    /\ IF pipe = 0
       THEN /\ Escape(t, "TypeError")
            /\ UNCHANGED <<buf, res>>
       ELSE IF pipe \notin openH
       THEN /\ Caught(t)
            /\ UNCHANGED <<buf, res>>
       ELSE /\ buf[pipe] # <<>> \/ pipe \in broken     \* otherwise the read blocks
            /\ LET r == first[t] \o buf[pipe]
               IN IF Undecodable(r)
                  THEN /\ Raise(t, "UnicodeDecodeError")
                       /\ UNCHANGED res
                  ELSE /\ res' = [res EXCEPT ![t] = r]
                       /\ UNCHANGED exc
            /\ buf' = [buf EXCEPT ![pipe] = <<>>]
            /\ first' = [first EXCEPT ![t] = <<>>]
            /\ Return(t)
    /\ UNCHANGED <<pipe, openH, broken, srv, req, hnew, outsideClient>>

(***************************************************************************)
(* SoundpadClient.uninit, at its three call sites: "un1" in the except     *)
(* clause of send_request, "un2" in the except clause of                   *)
(* send_request_safe, "un3" called from outside the client.                *)
(***************************************************************************)
UninitSites == {"un1", "un2", "un3"}

At(site, l) ==
    CASE site = "un1" -> (CASE l = "check" -> "un1_check" [] l = "close" -> "un1_close" [] OTHER -> "un1_none")
      [] site = "un2" -> (CASE l = "check" -> "un2_check" [] l = "close" -> "un2_close" [] OTHER -> "un2_none")
      [] OTHER        -> (CASE l = "check" -> "un3_check" [] l = "close" -> "un3_close" [] OTHER -> "un3_none")

\* what follows self.uninit() at each call site, e the exception uninit raised
\* ("none" if none):
\*   send_request:      `raise OSError(...)`, caught by send_request_safe, which
\*                      prints and calls self.uninit()
\*   send_request_safe: `return ""`
\* an exception of uninit itself is caught by neither
AfterUninit(t, site, e) ==
    IF site = "un1" /\ ~Escapes(e)
    THEN /\ Goto(t, "un2_check")
         /\ exc' = [exc EXCEPT ![t] = "OSError"]
         /\ UNCHANGED res
    ELSE /\ Return(t)
         /\ IF Escapes(e)
            THEN /\ exc' = [exc EXCEPT ![t] = e]
                 /\ UNCHANGED res
            ELSE /\ exc' = [exc EXCEPT ![t] = "none"]
                 /\ res' = [res EXCEPT ![t] = IF site = "un2" THEN <<>> ELSE @]

\* `if self.pipe is not None`
UninitCheck(t, site) ==
    /\ pc[t] = At(site, "check")
    /\ IF pipe = 0
       THEN AfterUninit(t, site, "none")
       ELSE /\ Goto(t, At(site, "close"))
            /\ UNCHANGED <<exc, res>>
    /\ UNCHANGED <<clientVars, req, first, hnew, outsideClient>>

\* os.close(self.pipe); `except OSError: pass`
UninitClose(t, site) ==
    /\ pc[t] = At(site, "close")
    /\ IF pipe = 0
       THEN /\ Raise(t, "TypeError")
            /\ UNCHANGED <<openH, broken, buf>>
       ELSE /\ openH' = openH \ {pipe}
            /\ broken' = broken \ {pipe}
            /\ buf' = [buf EXCEPT ![pipe] = <<>>]
            /\ UNCHANGED exc
    /\ Goto(t, At(site, "none"))
    /\ UNCHANGED <<pipe, srv, req, first, hnew, res, outsideClient>>

MutUninitNone(t, site) ==
    /\ pc[t] = At(site, "none")
    /\ AfterUninit(t, site, IF exc[t] = "TypeError" THEN "TypeError" ELSE "none")
    /\ UNCHANGED <<clientVars, req, first, hnew, outsideClient>>

\* `finally: self.pipe = None`
UninitNone(t, site) ==
    /\ pc[t] = At(site, "none")
    /\ pipe' = 0
    /\ AfterUninit(t, site, IF exc[t] = "TypeError" THEN "TypeError" ELSE "none")
    /\ UNCHANGED <<openH, broken, buf, srv, req, first, hnew, outsideClient>>

(***************************************************************************)
(* The remote process and its end of the pipe                              *)
(***************************************************************************)
SrvStates == {"up", "down", "denied"}

\* the remote process starts, exits, or changes how it can be reached; when it
\* stops being up, the handles that are open lose their server end, and the
\* bytes not yet read are lost with it or stay readable
SrvChange(s) ==
    /\ s # srv
    /\ srv' = s
    /\ IF srv = "up"
       THEN /\ broken' = openH
            /\ \/ buf' = [h \in Handles |-> <<>>]
               \/ buf' = buf
       ELSE UNCHANGED <<broken, buf>>
    /\ UNCHANGED <<pipe, openH, threadVars, regVars, regLocals, rtVars>>

ClientStep(t) ==
    \/ ClientInit(t)
    \/ ClientOpen(t)
    \/ ClientAssign(t)
    \/ ClientWrite(t)
    \/ ClientRead1(t)
    \/ ClientRead2(t)
    \/ \E site \in {"un1", "un2"} : UninitCheck(t, site)
    \/ \E site \in {"un1", "un2"} : UninitClose(t, site)
    \/ \E site \in {"un1", "un2"} : UninitNone(t, site)

EnvStep ==
    /\ \E s \in SrvStates : SrvChange(s)
    /\ UNCHANGED calls

(***************************************************************************)
(* Key tokens.                                                             *)
(***************************************************************************)
\* str.lower() of a key token
Lower(k) ==
    CASE k = "Ctrl"    -> "ctrl"
      [] k = "Control" -> "control"
      [] k = "A"       -> "a"
      [] k = "A "      -> "a "
      [] OTHER         -> k

\* str.strip() of a key token
Strip(k) ==
    CASE k = "a " -> "a"
      [] k = "A " -> "A"
      [] OTHER    -> k

\* KeyboardListener._keys_to_hotkey_string, one key
HotkeyPart(k) ==
    LET key_lower == Strip(Lower(k))
    IN IF key_lower \in {"ctrl", "control"} THEN "ctrl"
       ELSE IF key_lower \in {"cmd", "win", "windows"} THEN "windows"
       ELSE key_lower

\* KeyboardListener._keys_to_hotkey_string: the parts that '+' joins, in the
\* order of the keys
KeysToHotkeyString(keys) == [i \in 1..Len(keys) |-> HotkeyPart(keys[i])]

(***************************************************************************)
(* KeyboardListener.  A binding is a KeyCombination                        *)
(* [combo_id, keys, callback, enabled]; a hook of the backend is           *)
(* [h, hs, cb]: the handler keyboard.add_hotkey returned, the hotkey       *)
(* string and the callback.                                                *)
(***************************************************************************)
\* handlers the keyboard backend can tell apart
MaxHooks == 3

HookIds == 1..MaxHooks

IndexOf(id) ==
    IF \E i \in 1..Len(registered_combinations) : registered_combinations[i].combo_id = id
    THEN CHOOSE i \in 1..Len(registered_combinations) : registered_combinations[i].combo_id = id
    ELSE 0

Stored(id) == IndexOf(id) # 0

Binding(id) == registered_combinations[IndexOf(id)]

RemoveAt(seq, i) == SubSeq(seq, 1, i - 1) \o SubSeq(seq, i + 1, Len(seq))

\* handlers that neither the backend nor the list refers to
FreeHookIds ==
    HookIds \ ({k.h : k \in kbHooks} \cup {hotkey_handlers[i].h : i \in 1..Len(hotkey_handlers)})

MutRegisterHotkey(hs, cb) ==
    \/ /\ FreeHookIds # {}
       /\ LET h == CHOOSE x \in FreeHookIds : \A y \in FreeHookIds : x <= y
          IN /\ kbHooks' = kbHooks \cup {[h |-> h, hs |-> hs, cb |-> cb]}
             /\ hotkey_handlers' = Append(hotkey_handlers, [hs |-> hs, h |-> h])
    \/ /\ kbHooks' = kbHooks
       /\ hotkey_handlers' = Append(hotkey_handlers, [hs |-> hs, h |-> 0])

\* KeyboardListener._register_hotkey: keyboard.add_hotkey and the append; a
\* failure of add_hotkey is printed and swallowed
RegisterHotkey(hs, cb) ==
    \/ /\ FreeHookIds # {}
       /\ LET h == CHOOSE x \in FreeHookIds : \A y \in FreeHookIds : x <= y
          IN /\ kbHooks' = kbHooks \cup {[h |-> h, hs |-> hs, cb |-> cb]}
             /\ hotkey_handlers' = Append(hotkey_handlers, [hs |-> hs, h |-> h])
    \/ UNCHANGED <<kbHooks, hotkey_handlers>>

\* keyboard.remove_hotkey(handler)
Unhook(h) == {k \in kbHooks : k.h # h}

Live(h) == \E k \in kbHooks : k.h = h

\* the loop of unregister_combination and disable_combination: the first entry
\* of the list with this hotkey string is removed from the backend and from
\* the list; if remove_hotkey raises, the entry stays
RemoveFirstHandler(hs) ==
    IF \E i \in 1..Len(hotkey_handlers) : hotkey_handlers[i].hs = hs
    THEN LET i == CHOOSE j \in 1..Len(hotkey_handlers) :
                     /\ hotkey_handlers[j].hs = hs
                     /\ \A m \in 1..(j - 1) : hotkey_handlers[m].hs # hs
         IN IF Live(hotkey_handlers[i].h)
            THEN /\ kbHooks' = Unhook(hotkey_handlers[i].h)
                 /\ hotkey_handlers' = RemoveAt(hotkey_handlers, i)
            ELSE UNCHANGED <<kbHooks, hotkey_handlers>>
    ELSE UNCHANGED <<kbHooks, hotkey_handlers>>

\* what no statement of KeyboardListener touches
outsideRegistry == <<clientVars, req, first, hnew, rtVars>>



Acquire(t) == lock = "none" /\ lock' = t

Release(t) == lock' = "none"

\* the lock is taken and released within the step
Passes(t) == lock = "none" /\ lock' = lock

\* what a method of the listener returns: a record that names the kind of
\* value, so that a thread's results of different calls can be told apart
ReturnValue(t, v) == res' = [res EXCEPT ![t] = <<v>>]

MutRegisterEnter(t) ==
    /\ pc[t] = "reg_enter"
    /\ Acquire(t)
    /\ registered_combinations' =
          IF Stored(arg[t].id)
          THEN [registered_combinations EXCEPT ![IndexOf(arg[t].id)] =
                   [combo_id |-> arg[t].id, keys |-> arg[t].keys,
                    callback |-> arg[t].cb, enabled |-> TRUE]]
          ELSE Append(registered_combinations,
                      [combo_id |-> arg[t].id, keys |-> arg[t].keys,
                       callback |-> arg[t].cb, enabled |-> TRUE])
    /\ Goto(t, "reg_running")
    /\ UNCHANGED <<running, hotkey_handlers, kbHooks, exc, res, arg, it, outsideRegistry, calls>>

\* register_combination: `if not keys: raise ValueError`; `with self._lock:`
\* `if combo_id in self.registered_combinations: raise ValueError`; the
\* combination is stored
RegisterEnter(t) ==
    /\ pc[t] = "reg_enter"
    /\ IF arg[t].keys = <<>>
       THEN /\ Raise(t, "ValueError")
            /\ Return(t)
            /\ UNCHANGED <<registered_combinations, lock>>
       ELSE IF Stored(arg[t].id)
       THEN /\ Passes(t)
            /\ Raise(t, "ValueError")
            /\ Return(t)
            /\ UNCHANGED registered_combinations
       ELSE /\ Acquire(t)
            /\ registered_combinations' =
                  Append(registered_combinations,
                         [combo_id |-> arg[t].id, keys |-> arg[t].keys,
                          callback |-> arg[t].cb, enabled |-> TRUE])
            /\ Goto(t, "reg_running")
            /\ UNCHANGED exc
    /\ UNCHANGED <<running, hotkey_handlers, kbHooks, res, arg, it, outsideRegistry, calls>>

\* register_combination: `if self.running:`; otherwise `return combo_id`
RegisterRunning(t) ==
    /\ pc[t] = "reg_running"
    /\ IF running
       THEN /\ Goto(t, "reg_install")
            /\ UNCHANGED <<lock, res>>
       ELSE /\ Release(t)
            /\ ReturnValue(t, [combo_id |-> arg[t].id])
            /\ Return(t)
    /\ UNCHANGED <<running, registered_combinations, hotkey_handlers, kbHooks,
                   exc, arg, it, outsideRegistry, calls>>

\* register_combination: self._register_hotkey(hotkey_string, callback);
\* `return combo_id`
RegisterInstall(t) ==
    /\ pc[t] = "reg_install"
    /\ RegisterHotkey(KeysToHotkeyString(arg[t].keys), arg[t].cb)
    /\ Release(t)
    /\ ReturnValue(t, [combo_id |-> arg[t].id])
    /\ Return(t)
    /\ UNCHANGED <<running, registered_combinations, exc, arg, it, outsideRegistry, calls>>

\* unregister_combination: `with self._lock:`, `return False` if the id is
\* not stored; otherwise the hotkey string is computed and the entry deleted
UnregisterEnter(t) ==
    /\ pc[t] = "unr_enter"
    /\ IF ~Stored(arg[t].id)
       THEN /\ Passes(t)
            /\ ReturnValue(t, [found |-> FALSE])
            /\ Return(t)
            /\ UNCHANGED <<registered_combinations, arg>>
       ELSE /\ Acquire(t)
            /\ arg' = [arg EXCEPT ![t].keys = Binding(arg[t].id).keys]
            /\ registered_combinations' = RemoveAt(registered_combinations, IndexOf(arg[t].id))
            /\ Goto(t, "rem_running")
            /\ UNCHANGED res
    /\ UNCHANGED <<running, hotkey_handlers, kbHooks, exc, it, outsideRegistry, calls>>

\* unregister_combination, disable_combination: `if self.running:`;
\* otherwise `return True`
RemoveRunning(t) ==
    /\ pc[t] = "rem_running"
    /\ IF running
       THEN /\ Goto(t, "rem_remove")
            /\ UNCHANGED <<lock, res>>
       ELSE /\ Release(t)
            /\ ReturnValue(t, [found |-> TRUE])
            /\ Return(t)
    /\ UNCHANGED <<running, registered_combinations, hotkey_handlers, kbHooks,
                   exc, arg, it, outsideRegistry, calls>>

\* unregister_combination, disable_combination: the handler is looked up by
\* its hotkey string and removed; `return True`
RemoveHandler(t) ==
    /\ pc[t] = "rem_remove"
    /\ RemoveFirstHandler(KeysToHotkeyString(arg[t].keys))
    /\ Release(t)
    /\ ReturnValue(t, [found |-> TRUE])
    /\ Return(t)
    /\ UNCHANGED <<running, registered_combinations, exc, arg, it, outsideRegistry, calls>>

\* enable_combination: `with self._lock:`, `return False` if the id is not
\* stored, `return True` if it is enabled already; otherwise it is enabled
EnableEnter(t) ==
    /\ pc[t] = "en_enter"
    /\ IF ~Stored(arg[t].id)
       THEN /\ Passes(t)
            /\ ReturnValue(t, [found |-> FALSE])
            /\ Return(t)
            /\ UNCHANGED <<registered_combinations, arg>>
       ELSE IF Binding(arg[t].id).enabled
       THEN /\ Passes(t)
            /\ ReturnValue(t, [found |-> TRUE])
            /\ Return(t)
            /\ UNCHANGED <<registered_combinations, arg>>
       ELSE /\ Acquire(t)
            /\ registered_combinations' =
                  [registered_combinations EXCEPT ![IndexOf(arg[t].id)].enabled = TRUE]
            /\ arg' = [arg EXCEPT ![t].keys = Binding(arg[t].id).keys,
                                  ![t].cb = Binding(arg[t].id).callback]
            /\ Goto(t, "en_running")
            /\ UNCHANGED res
    /\ UNCHANGED <<running, hotkey_handlers, kbHooks, exc, it, outsideRegistry, calls>>

\* enable_combination: `if self.running:`; otherwise `return True`
EnableRunning(t) ==
    /\ pc[t] = "en_running"
    /\ IF running
       THEN /\ Goto(t, "en_install")
            /\ UNCHANGED <<lock, res>>
       ELSE /\ Release(t)
            /\ ReturnValue(t, [found |-> TRUE])
            /\ Return(t)
    /\ UNCHANGED <<running, registered_combinations, hotkey_handlers, kbHooks,
                   exc, arg, it, outsideRegistry, calls>>

\* enable_combination: self._register_hotkey(hotkey_string, combination.callback)
EnableInstall(t) ==
    /\ pc[t] = "en_install"
    /\ RegisterHotkey(KeysToHotkeyString(arg[t].keys), arg[t].cb)
    /\ Release(t)
    /\ ReturnValue(t, [found |-> TRUE])
    /\ Return(t)
    /\ UNCHANGED <<running, registered_combinations, exc, arg, it, outsideRegistry, calls>>

\* disable_combination: `with self._lock:`, `return False` if the id is not
\* stored, `return True` if it is disabled already; otherwise it is disabled
DisableEnter(t) ==
    /\ pc[t] = "dis_enter"
    /\ IF ~Stored(arg[t].id)
       THEN /\ Passes(t)
            /\ ReturnValue(t, [found |-> FALSE])
            /\ Return(t)
            /\ UNCHANGED <<registered_combinations, arg>>
       ELSE IF ~Binding(arg[t].id).enabled
       THEN /\ Passes(t)
            /\ ReturnValue(t, [found |-> TRUE])
            /\ Return(t)
            /\ UNCHANGED <<registered_combinations, arg>>
       ELSE /\ Acquire(t)
            /\ registered_combinations' =
                  [registered_combinations EXCEPT ![IndexOf(arg[t].id)].enabled = FALSE]
            /\ arg' = [arg EXCEPT ![t].keys = Binding(arg[t].id).keys]
            /\ Goto(t, "rem_running")
            /\ UNCHANGED res
    /\ UNCHANGED <<running, hotkey_handlers, kbHooks, exc, it, outsideRegistry, calls>>

\* a start that raises when nothing is registered
MutStartCheck(t) ==
    /\ pc[t] = "st_check"
    /\ IF running \/ registered_combinations = <<>>
       THEN /\ Raise(t, "RuntimeError")
            /\ Return(t)
            /\ UNCHANGED <<arg, it>>
       ELSE /\ arg' = [arg EXCEPT ![t].n = Len(registered_combinations)]
            /\ it' = [it EXCEPT ![t] = 0]
            /\ Goto(t, "st_iter")
            /\ UNCHANGED exc
    /\ UNCHANGED <<regVars, res, outsideRegistry, calls>>

\* start: `if self.running: raise RuntimeError`; a warning if nothing is
\* registered; the dict iterator of _register_all_hotkeys is created
StartCheck(t) ==
    /\ pc[t] = "st_check"
    /\ IF running
       THEN /\ Raise(t, "RuntimeError")
            /\ Return(t)
            /\ UNCHANGED <<arg, it>>
       ELSE /\ arg' = [arg EXCEPT ![t].n = Len(registered_combinations)]
            /\ it' = [it EXCEPT ![t] = 0]
            /\ Goto(t, "st_iter")
            /\ UNCHANGED exc
    /\ UNCHANGED <<regVars, res, outsideRegistry, calls>>

\* _register_all_hotkeys: one turn of `for combo_id, combination in
\* self.registered_combinations.items()`; a dict whose size changed raises
\* RuntimeError, which start raises again
StartIter(t) ==
    /\ pc[t] = "st_iter"
    /\ IF Len(registered_combinations) # arg[t].n
       THEN /\ Raise(t, "RuntimeError")
            /\ Return(t)
            /\ UNCHANGED <<kbHooks, hotkey_handlers, it>>
       ELSE IF it[t] < Len(registered_combinations)
       THEN /\ LET c == registered_combinations[it[t] + 1]
               IN IF c.enabled
                  THEN RegisterHotkey(KeysToHotkeyString(c.keys), c.callback)
                  ELSE UNCHANGED <<kbHooks, hotkey_handlers>>
            /\ it' = [it EXCEPT ![t] = @ + 1]
            /\ UNCHANGED <<pc, stk, exc>>
       ELSE /\ Goto(t, "st_set")
            /\ UNCHANGED <<kbHooks, hotkey_handlers, it, exc>>
    /\ UNCHANGED <<running, registered_combinations, lock, res, arg, outsideRegistry, calls>>

\* start: `self.running = True`
StartSet(t) ==
    /\ pc[t] = "st_set"
    /\ running' = TRUE
    /\ Return(t)
    /\ UNCHANGED <<registered_combinations, hotkey_handlers, kbHooks, lock,
                   exc, res, arg, it, outsideRegistry, calls>>

\* stop: `if not self.running: return`
StopCheck(t) ==
    /\ pc[t] = "sp_check"
    /\ IF running THEN Goto(t, "sp_set") ELSE Return(t)
    /\ UNCHANGED <<regVars, exc, res, arg, it, outsideRegistry, calls>>

\* stop: `self.running = False`; the list iterator of _unregister_all_hotkeys
\* is created
StopSet(t) ==
    /\ pc[t] = "sp_set"
    /\ running' = FALSE
    /\ it' = [it EXCEPT ![t] = 0]
    /\ Goto(t, "sp_iter")
    /\ UNCHANGED <<registered_combinations, hotkey_handlers, kbHooks, lock,
                   exc, res, arg, outsideRegistry, calls>>

\* _unregister_all_hotkeys: one turn of `for hotkey_string, handler in
\* self.hotkey_handlers`, errors of remove_hotkey ignored
StopIter(t) ==
    /\ pc[t] = "sp_iter"
    /\ IF it[t] < Len(hotkey_handlers)
       THEN /\ kbHooks' = Unhook(hotkey_handlers[it[t] + 1].h)
            /\ it' = [it EXCEPT ![t] = @ + 1]
            /\ UNCHANGED <<pc, stk>>
       ELSE /\ Goto(t, "sp_clear")
            /\ UNCHANGED <<kbHooks, it>>
    /\ UNCHANGED <<running, registered_combinations, hotkey_handlers, lock,
                   exc, res, arg, outsideRegistry, calls>>

\* _unregister_all_hotkeys: `self.hotkey_handlers.clear()`
StopClear(t) ==
    /\ pc[t] = "sp_clear"
    /\ hotkey_handlers' = <<>>
    /\ Return(t)
    /\ UNCHANGED <<running, registered_combinations, kbHooks, lock,
                   exc, res, arg, it, outsideRegistry, calls>>

\* get_statistics: `with self._lock:` and the four values it returns
GetStatistics(t) ==
    /\ pc[t] = "stat_enter"
    /\ Passes(t)
    /\ ReturnValue(t, [running |-> running,
                        registered_combinations |-> Len(registered_combinations),
                        enabled_combinations |->
                           Cardinality({i \in 1..Len(registered_combinations) :
                                           registered_combinations[i].enabled}),
                        active_handlers |-> Len(hotkey_handlers)])
    /\ Return(t)
    /\ UNCHANGED <<running, registered_combinations, hotkey_handlers, kbHooks,
                   exc, arg, it, outsideRegistry, calls>>

\* get_registered_combinations: `with self._lock:` and the copy of the dict
GetRegisteredCombinations(t) ==
    /\ pc[t] = "combos_enter"
    /\ Passes(t)
    /\ ReturnValue(t, [copy |-> registered_combinations])
    /\ Return(t)
    /\ UNCHANGED <<running, registered_combinations, hotkey_handlers, kbHooks,
                   exc, arg, it, outsideRegistry, calls>>

QueryStep(t) == GetStatistics(t) \/ GetRegisteredCombinations(t)

RegistryStep(t) ==
    \/ RegisterEnter(t)
    \/ RegisterRunning(t)
    \/ RegisterInstall(t)
    \/ UnregisterEnter(t)
    \/ RemoveRunning(t)
    \/ RemoveHandler(t)
    \/ EnableEnter(t)
    \/ EnableRunning(t)
    \/ EnableInstall(t)
    \/ DisableEnter(t)
    \/ StartCheck(t)
    \/ StartIter(t)
    \/ StartSet(t)
    \/ StopCheck(t)
    \/ StopSet(t)
    \/ StopIter(t)
    \/ StopClear(t)

(***************************************************************************)
(* The client on its own: callers that send any command of the program,    *)
(* one after the other on each thread.                                     *)
(***************************************************************************)
Commands ==
    {[verb |-> "IsAlive", cat |-> 0],
     [verb |-> "DoPlayRandomSoundFromCategory", cat |-> 5]}

\* a thread calls send_request_safe(request)
CallerSend(t) ==
    /\ pc[t] = "idle"
    /\ \E c \in Commands : req' = [req EXCEPT ![t] = c]
    /\ Call(t, "init", "called")
    /\ UNCHANGED <<clientVars, first, hnew, exc, res, outsideClient>>

\* the call is over: it returned res[t], or raised exc[t]
CallerDone(t) ==
    /\ pc[t] = "called"
    /\ Goto(t, "idle")
    /\ req' = [req EXCEPT ![t] = NoReq]
    /\ res' = [res EXCEPT ![t] = <<>>]
    /\ exc' = [exc EXCEPT ![t] = "none"]
    /\ UNCHANGED <<clientVars, first, hnew, outsideClient>>

ClientInitState ==
    /\ pipe = 0
    /\ openH = {}
    /\ broken = {}
    /\ buf = [h \in Handles |-> <<>>]
    /\ srv \in SrvStates

\* no thread is in a call
FramesInitState ==
    /\ stk = [t \in Threads |-> <<>>]
    /\ req = [t \in Threads |-> NoReq]
    /\ first = [t \in Threads |-> <<>>]
    /\ hnew = [t \in Threads |-> 0]
    /\ exc = [t \in Threads |-> "none"]
    /\ res = [t \in Threads |-> <<>>]

ThreadInitState ==
    /\ pc = [t \in Threads |-> "idle"]
    /\ FramesInitState

RegistryInitState ==
    /\ running = FALSE
    /\ registered_combinations = <<>>
    /\ hotkey_handlers = <<>>
    /\ kbHooks = {}
    /\ lock = "none"
    /\ arg = [t \in Threads |-> NoArg]
    /\ it = [t \in Threads |-> 0]
    /\ calls = 0

\* SoundpadRuntime.__init__
RuntimeInitState ==
    /\ issues = {}
    /\ soundpad_client = FALSE
    /\ rt_running = FALSE
    /\ soundpad_connected = FALSE
    /\ shortcuts_loaded = 0
    /\ action_log = <<>>
    /\ stats = [sounds_played |-> 0, pauses_triggered |-> 0, errors |-> 0,
                last_action |-> "None"]
    /\ fr = [t \in Threads |-> NoFrame]

InitClient ==
    /\ ClientInitState /\ ThreadInitState /\ RegistryInitState
    /\ RuntimeInitState /\ config_data = NoConfig

NextClient ==
    \/ \E t \in ClientThreads : CallerSend(t)
    \/ \E t \in ClientThreads : CallerDone(t)
    \/ \E t \in ClientThreads : ClientStep(t)
    \/ EnvStep

\* two threads share one client
SpecClient == InitClient /\ [][NextClient]_vars

\* one thread uses the client
NextClientSeq ==
    \/ CallerSend("loop")
    \/ CallerDone("loop")
    \/ ClientStep("loop")
    \/ EnvStep

\* the caller keeps sending, and every statement it reaches is executed
FairClientSeq ==
    /\ InitClient
    /\ [][NextClientSeq]_vars
    /\ WF_vars(CallerSend("loop") \/ CallerDone("loop") \/ ClientStep("loop"))

(***************************************************************************)
(* What a caller sees of a call of send_request_safe that is over.         *)
(***************************************************************************)
Over(t) == pc[t] = "called"

\* it returned "" (a failure)
ReturnedEmpty(t) == Over(t) /\ exc[t] = "none" /\ res[t] = <<>>

\* it returned a response
ReturnedResponse(t) == Over(t) /\ exc[t] = "none" /\ res[t] # <<>>

\* the thread has written its request and not yet read the whole response
InFlight(t) == pc[t] \in {"read1", "read2"}

(***************************************************************************)
(* C1.  At most one request is in flight at any instant, and every call    *)
(* that returns a response returns the response to its own request.        *)
(***************************************************************************)
C1_OneRequestInFlight ==
    /\ Cardinality({t \in ClientThreads : InFlight(t)}) <= 1
    /\ \A t \in ClientThreads :
          ReturnedResponse(t) => /\ Whole(res[t])
                                 /\ res[t][1].by = t

(***************************************************************************)
(* C2.  send_request_safe returns a value and never raises, whatever the   *)
(* outcome of open, write, read and decode.                                *)
(***************************************************************************)
C2_NeverRaises == \A t \in ClientThreads : Over(t) => exc[t] = "none"

(***************************************************************************)
(* C3.  With one caller: a send that fails leaves the channel closed       *)
(* (pipe is None) when it returns, a send that finds the channel closed    *)
(* opens it afresh, and once the remote process stays reachable the sends  *)
(* do not keep failing: again and again a send reads a response.           *)
(***************************************************************************)
C3_ClosedAfterFailure == ReturnedEmpty("loop") => pipe = 0

C3_FreshOpen ==
    (pc["loop"] = "init" /\ pipe = 0 /\ pc'["loop"] # "init") => (pc'["loop"] = "open")

C3_ResponseRead == Over("loop") /\ (res["loop"] # <<>> \/ exc["loop"] = "UnicodeDecodeError")

C3_Recovers ==
    /\ []C3_ClosedAfterFailure
    /\ [][C3_FreshOpen]_vars
    /\ (<>[](srv = "up")) => []<>C3_ResponseRead

\* a send failed, the channel is closed, and the remote process is reachable
C3_Witness ==
    /\ ReturnedEmpty("loop")
    /\ pipe = 0 /\ openH = {}
    /\ srv = "up"

(***************************************************************************)
(* The KeyboardListener on its own: two threads call its methods with any  *)
(* arguments, and the backend delivers key events on the hook thread.      *)
(***************************************************************************)
ApiThreads == {"loop", "aux"}

ComboIds == {"category_a", "pause_resume"}

\* the calls of register_combination: two of them with the same id, two of
\* them with the same hotkey, one with no key and one with five keys
RegisterCalls ==
    {[op |-> "register", id |-> "category_a", keys |-> <<"ctrl", "1">>, cb |-> "cb1", n |-> 0],
     [op |-> "register", id |-> "category_a", keys |-> <<"alt", "2">>, cb |-> "cb2", n |-> 0],
     [op |-> "register", id |-> "pause_resume", keys |-> <<"Control", "1">>, cb |-> "cb2", n |-> 0],
     [op |-> "register", id |-> "pause_resume", keys |-> <<>>, cb |-> "cb2", n |-> 0],
     [op |-> "register", id |-> "pause_resume",
      keys |-> <<"ctrl", "alt", "shift", "f", "1">>, cb |-> "cb2", n |-> 0]}

Entry(op) ==
    CASE op = "register"   -> "reg_enter"
      [] op = "unregister" -> "unr_enter"
      [] op = "enable"     -> "en_enter"
      [] op = "disable"    -> "dis_enter"
      [] op = "start"      -> "st_check"
      [] op = "statistics" -> "stat_enter"
      [] op = "combinations" -> "combos_enter"
      [] OTHER             -> "sp_check"

\* a thread calls a method of the listener
ApiCall(t) ==
    /\ pc[t] = "idle"
    /\ calls < MaxCalls
    /\ calls' = calls + 1
    /\ \E a \in
          RegisterCalls
          \cup {[op |-> o, id |-> i, keys |-> <<>>, cb |-> "none", n |-> 0] :
               o \in {"unregister", "enable", "disable"}, i \in ComboIds}
          \cup {[op |-> o, id |-> "none", keys |-> <<>>, cb |-> "none", n |-> 0] :
               o \in {"start", "stop"}} :
          /\ arg' = [arg EXCEPT ![t] = a]
          /\ Call(t, Entry(a.op), "api_ret")
    /\ UNCHANGED <<regVars, exc, res, it, outsideRegistry>>

\* the method is over: it returned res[t], or raised exc[t]
ApiDone(t) ==
    /\ pc[t] = "api_ret"
    /\ Goto(t, "idle")
    /\ arg' = [arg EXCEPT ![t] = NoArg]
    /\ it' = [it EXCEPT ![t] = 0]
    /\ exc' = [exc EXCEPT ![t] = "none"]
    /\ res' = [res EXCEPT ![t] = <<>>]
    /\ UNCHANGED <<regVars, outsideRegistry, calls>>

MutDeliver(k) ==
    /\ pc["hook"] = "idle"
    /\ k \in kbHooks
    /\ lock = "none"
    /\ lock' = "hook"
    /\ arg' = [arg EXCEPT !["hook"] = [NoArg EXCEPT !.op = "callback", !.cb = k.cb]]
    /\ Goto("hook", "in_callback")
    /\ UNCHANGED <<running, registered_combinations, hotkey_handlers, kbHooks,
                   exc, res, it, outsideRegistry, calls>>

\* a key event: the backend calls the callback of a live hook on its thread
Deliver(k) ==
    /\ pc["hook"] = "idle"
    /\ k \in kbHooks
    /\ arg' = [arg EXCEPT !["hook"] = [NoArg EXCEPT !.op = "callback", !.cb = k.cb]]
    /\ Goto("hook", "in_callback")
    /\ UNCHANGED <<regVars, exc, res, it, outsideRegistry, calls>>

\* the callback, on the thread of the backend, calls a method of the
\* listener that takes the lock
CallbackCalls ==
    /\ pc["hook"] = "in_callback"
    /\ calls < MaxCalls
    /\ calls' = calls + 1
    /\ \E a \in
          {[op |-> "unregister", id |-> i, keys |-> <<>>, cb |-> arg["hook"].cb, n |-> 0] :
              i \in ComboIds}
          \cup {[op |-> o, id |-> "none", keys |-> <<>>, cb |-> arg["hook"].cb, n |-> 0] :
                   o \in {"statistics", "combinations"}} :
          /\ arg' = [arg EXCEPT !["hook"] = a]
          /\ Call("hook", Entry(a.op), "in_callback")
    /\ UNCHANGED <<regVars, exc, res, it, outsideRegistry>>

\* the callback returns
Delivered ==
    /\ pc["hook"] = "in_callback"
    /\ arg' = [arg EXCEPT !["hook"] = NoArg]
    /\ res' = [res EXCEPT !["hook"] = <<>>]
    /\ Goto("hook", "idle")
    /\ UNCHANGED <<regVars, exc, it, outsideRegistry, calls>>

InitRegistry ==
    /\ ClientInitState /\ srv = "up"
    /\ ThreadInitState
    /\ RegistryInitState
    /\ RuntimeInitState /\ config_data = NoConfig

NextRegistry ==
    \/ \E t \in ApiThreads : ApiCall(t)
    \/ \E t \in ApiThreads : ApiDone(t)
    \/ \E t \in ApiThreads : RegistryStep(t)
    \/ \E k \in kbHooks : Deliver(k)
    \/ CallbackCalls
    \/ RegistryStep("hook")
    \/ QueryStep("hook")
    \/ Delivered

SpecRegistry == InitRegistry /\ [][NextRegistry]_vars

\* the call of method op on thread t has returned or raised, and t has done
\* nothing since
Returned(t, op) == pc[t] = "api_ret" /\ arg[t].op = op

(***************************************************************************)
(* C4.  Once stop() has returned, and until start() is called, no hook is  *)
(* live: the list of handlers is empty and the backend holds no hook whose *)
(* callback a key event would call, whatever the other thread is doing in  *)
(* register_combination, enable_combination or any other method.           *)
(***************************************************************************)
C4_NoHookAfterStop ==
    \A t \in ApiThreads :
       (/\ Returned(t, "stop")
        /\ ~running
        /\ \A u \in ApiThreads \ {t} : arg[u].op # "start")
       => (hotkey_handlers = <<>> /\ kbHooks = {})

(***************************************************************************)
(* C10.  register_combination with an id that is stored raises ValueError  *)
(* and changes nothing: the stored bindings (the first binding with its    *)
(* keys and its callback), the list of handlers and the live hooks are     *)
(* what they were.                                                         *)
(***************************************************************************)
C10_DuplicateRejected ==
    [][\A t \in ApiThreads :
          (pc[t] = "reg_enter" /\ Stored(arg[t].id) /\ pc'[t] # "reg_enter")
          => /\ exc'[t] = "ValueError"
             /\ pc'[t] = "api_ret"
             /\ registered_combinations' = registered_combinations
             /\ hotkey_handlers' = hotkey_handlers
             /\ kbHooks' = kbHooks]_vars

\* a second registration of an id, with other keys, was rejected while the
\* listener is running and the first binding has its hook
C10_Witness ==
    \E t \in ApiThreads :
       /\ Returned(t, "register")
       /\ exc[t] = "ValueError"
       /\ running
       /\ Stored(arg[t].id)
       /\ Binding(arg[t].id).keys # arg[t].keys
       /\ Binding(arg[t].id).callback # arg[t].cb
       /\ \E k \in kbHooks : k.cb = Binding(arg[t].id).callback

\* the most key tokens a shortcut may have
MaxKeys == 4

(***************************************************************************)
(* C11.  Every binding stored in the registry has between 1 and 4 key      *)
(* tokens: register_combination stores nothing when the key list is empty  *)
(* or longer than 4.                                                       *)
(***************************************************************************)
C11_KeyCountBounded ==
    \A i \in 1..Len(registered_combinations) :
       Len(registered_combinations[i].keys) \in 1..MaxKeys

\* the statements of a method that read or change running,
\* registered_combinations or hotkey_handlers, or install or remove hooks,
\* once the first of them has run
Sections ==
    {"reg_running", "reg_install", "rem_running", "rem_remove", "en_running",
     "en_install", "st_iter", "st_set", "sp_set", "sp_iter", "sp_clear"}

InSection(t) == pc[t] \in Sections

(***************************************************************************)
(* C12.  register, unregister, enable, disable, start and stop exclude     *)
(* one another: two threads are never at the same time inside the          *)
(* sections that read or change running, registered_combinations or        *)
(* hotkey_handlers or that install or remove hooks.                        *)
(***************************************************************************)
C12_MutuallyExclusive ==
    \A t, u \in ApiThreads : (t # u /\ InSection(t)) => ~InSection(u)

\* the statements inside a `with self._lock:` block
LockedSections ==
    {"reg_running", "reg_install", "rem_running", "rem_remove", "en_running", "en_install"}

\* a callback has been called and has not returned
InCallback == pc["hook"] # "idle"

\* the scheduler runs every thread that can take a step, and a callback that
\* has nothing left to do returns
FairRegistry ==
    /\ SpecRegistry
    /\ WF_vars(\E t \in Threads : RegistryStep(t) \/ QueryStep(t))
    /\ WF_vars(Delivered)

(***************************************************************************)
(* C13.  No deadlock between callbacks and the registry: the lock is only  *)
(* ever held by a thread that is inside a `with self._lock:` block of the  *)
(* listener (never by a thread that is in a callback's own code or in the  *)
(* client), a callback is called and runs without the lock, and a callback *)
(* that calls get_statistics, get_registered_combinations or               *)
(* unregister_combination always returns.                                  *)
(***************************************************************************)
C13_NoDeadlock ==
    /\ [](\A t \in Threads : lock = t => pc[t] \in LockedSections)
    /\ [](pc["hook"] = "in_callback" => lock # "hook")
    /\ (InCallback ~> ~InCallback)

\* the callback is inside unregister_combination, holding the lock, while
\* another thread waits for it
C13_Witness ==
    /\ lock = "hook" /\ pc["hook"] = "rem_running"
    /\ \E t \in ApiThreads : pc[t] \in {"reg_enter", "unr_enter", "en_enter", "dis_enter"}

(***************************************************************************)
(* Key combinations and the search for conflicts.                          *)
(***************************************************************************)
\* the key tokens of the model, in the order Python's sorted() puts them
\* (by code point: digits, capitals, small letters)
TokenOrder ==
    <<"1", "2", "A", "A ", "Control", "Ctrl", "a", "a ", "alt", "cmd", "control", "ctrl",
      "f", "f1", "p", "shift", "win">>

\* sorted(keys), from the i-th token of the order on
RECURSIVE SortedFrom(_, _)
SortedFrom(i, keys) ==
    IF i > Len(TokenOrder)
    THEN <<>>
    ELSE SelectSeq(keys, LAMBDA k : k = TokenOrder[i]) \o SortedFrom(i + 1, keys)

\* sorted(keys)
Sorted(keys) == SortedFrom(1, keys)

\* key_aliases.get(key, key) of normalize_key_combination
KeyAlias(k) ==
    CASE k \in {"control", "ctrl_l", "ctrl_r"}          -> "ctrl"
      [] k \in {"alt_l", "alt_r"}                      -> "alt"
      [] k \in {"shift_l", "shift_r"}                  -> "shift"
      [] k \in {"cmd_l", "cmd_r", "windows", "win"}    -> "cmd"
      [] OTHER                                         -> k

\* the first loop of normalize_key_combination: lower case, stripped, aliases,
\* and each key once, in the order of first appearance
RECURSIVE Normalized(_, _)
Normalized(keys, done) ==
    IF keys = <<>>
    THEN done
    ELSE LET key == KeyAlias(Strip(Lower(Head(keys))))
         IN Normalized(Tail(keys),
                       IF \E i \in 1..Len(done) : done[i] = key
                       THEN done
                       ELSE Append(done, key))

modifier_order == <<"ctrl", "alt", "shift", "cmd">>

IsModifier(k) == \E i \in 1..Len(modifier_order) : modifier_order[i] = k

\* a normalization that leaves the keys in the order of first appearance
MutNormalizeUnsorted(keys) == Normalized(keys, <<>>)

\* a normalization that looks up the alias before it lowers the key
MutNormalizeKeyCombination(keys) ==
    LET normalized == [i \in 1..Len(keys) |-> Lower(KeyAlias(Strip(keys[i])))]
        Has(m) == \E i \in 1..Len(normalized) : normalized[i] = m
    IN SelectSeq(modifier_order, Has)
       \o Sorted(SelectSeq(normalized, LAMBDA k : ~IsModifier(k)))

\* normalize_key_combination: the modifiers in their fixed order, then the
\* other keys sorted
NormalizeKeyCombination(keys) ==
    LET normalized == Normalized(keys, <<>>)
        Has(m) == \E i \in 1..Len(normalized) : normalized[i] = m
    IN SelectSeq(modifier_order, Has)
       \o Sorted(SelectSeq(normalized, LAMBDA k : ~IsModifier(k)))

KeySet(keys) == {keys[i] : i \in 1..Len(keys)}

\* ConfigManager.get_enabled_categories
EnabledCategories(cfg) == SelectSeq(cfg.categories, LAMBDA c : c.enabled)

\* the owners get_conflicting_shortcuts looks at, in the order it visits them:
\* every category that has a shortcut, enabled or not, then the pause/resume
\* shortcut
ShortcutOwners(cfg) ==
    LET cats == SelectSeq(cfg.categories, LAMBDA c : c.keyboard_shortcut # <<>>)
    IN [i \in 1..Len(cats) |->
           [owner |-> "category:" \o cats[i].name, keys |-> cats[i].keyboard_shortcut]]
       \o (IF cfg.stop_playback # <<>>
           THEN <<[owner |-> "pause_resume", keys |-> cfg.stop_playback]>>
           ELSE <<>>)

\* ConfigManager.get_conflicting_shortcuts: the dictionary from
\* tuple(sorted(shortcut)) to its owners, the entries with one owner left out
GetConflictingShortcuts(cfg) ==
    LET owners == ShortcutOwners(cfg)
        Key(i) == Sorted(owners[i].keys)
        Of(k) == SelectSeq(owners, LAMBDA o : Sorted(o.keys) = k)
    IN {[key |-> k, owners |-> [i \in 1..Len(Of(k)) |-> Of(k)[i].owner]] :
           k \in {x \in {Key(i) : i \in 1..Len(owners)} : Len(Of(x)) > 1}}

(***************************************************************************)
(* SoundpadRuntime.  The main thread ("loop") runs start(): configuration, *)
(* connection, registration of the shortcuts, the listener, and then the   *)
(* supervising loop; the backend thread ("hook") runs the callbacks.       *)
(***************************************************************************)
\* log_action keeps the last 50 entries
LogCap == 50

\* an entry of the log (the dataclass ActionLog, without the timestamp)
ActionLog(action, category, success, details) ==
    [action |-> action, category |-> category, success |-> success, details |-> details]

\* SoundpadRuntime.log_action: append, then `if len(self.action_log) > 50:
\* self.action_log = self.action_log[-50:]`
Logged(log, entry) ==
    LET a == Append(log, entry)
    IN IF Len(a) > LogCap THEN SubSeq(a, Len(a) - LogCap + 1, Len(a)) ELSE a

IsAliveRequest == [verb |-> "IsAlive", cat |-> 0]

\* the bindings setup_keyboard_shortcuts registers, in its order: the enabled
\* categories that have a shortcut, then the pause/resume shortcut
ShortcutBindings(cfg) ==
    LET cats == SelectSeq(EnabledCategories(cfg), LAMBDA c : c.keyboard_shortcut # <<>>)
    IN [i \in 1..Len(cats) |->
           [id |-> "category_" \o cats[i].name, keys |-> cats[i].keyboard_shortcut]]
       \o (IF cfg.stop_playback # <<>>
           THEN <<[id |-> "pause_resume", keys |-> cfg.stop_playback]>>
           ELSE <<>>)

\* init_config: ConfigManager(), validate_config(); the issues are printed and
\* init_config returns True.  (auto_launch is off in the configuration files
\* of the model: launch_soundpad_if_needed returns True at once, and
\* _try_auto_launch_soundpad returns False.)
RtInitConfig(t) ==
    /\ pc[t] = "rt_config"
    /\ issues' = GetConflictingShortcuts(config_data)
    /\ Goto(t, "rt_connect")
    /\ UNCHANGED <<clientVars, regVars, exc, res, req, first, hnew, regLocals, calls,
                   config_data, soundpad_client, rt_running, soundpad_connected,
                   shortcuts_loaded, action_log, stats, fr>>

\* connect_to_soundpad: create_client() and is_alive() (retry_count is 0)
RtConnect(t) ==
    /\ pc[t] = "rt_connect"
    /\ soundpad_client' = TRUE
    /\ pipe' = 0
    /\ buf' = IF pipe = 0 THEN buf ELSE [buf EXCEPT ![pipe] = <<>>]
    /\ req' = [req EXCEPT ![t] = IsAliveRequest]
    /\ Call(t, "init", "rt_alive")
    /\ UNCHANGED <<openH, broken, srv, regVars, exc, res, first, hnew, regLocals, calls,
                   config_data, issues, rt_running, soundpad_connected,
                   shortcuts_loaded, action_log, stats, fr>>

MutRtAlive(t) ==
    /\ pc[t] = "rt_alive"
    /\ soundpad_connected' = (exc[t] = "none" /\ IsSuccess(res[t]))
    /\ Goto(t, IF exc[t] = "none" /\ IsSuccess(res[t]) THEN "rt_setup" ELSE "rt_exit")
    /\ exc' = [exc EXCEPT ![t] = "none"]
    /\ res' = [res EXCEPT ![t] = <<>>]
    /\ req' = [req EXCEPT ![t] = NoReq]
    /\ UNCHANGED <<clientVars, regVars, first, hnew, regLocals, calls,
                   config_data, issues, soundpad_client, rt_running,
                   shortcuts_loaded, action_log, stats, fr>>

\* connect_to_soundpad after is_alive(): the flag is set to the answer, to
\* False in `except Exception`
RtAlive(t) ==
    /\ pc[t] = "rt_alive"
    /\ soundpad_connected' = (exc[t] = "none" /\ IsSuccess(res[t]))
    /\ Goto(t, "rt_setup")
    /\ exc' = [exc EXCEPT ![t] = "none"]
    /\ res' = [res EXCEPT ![t] = <<>>]
    /\ req' = [req EXCEPT ![t] = NoReq]
    /\ UNCHANGED <<clientVars, regVars, first, hnew, regLocals, calls,
                   config_data, issues, soundpad_client, rt_running,
                   shortcuts_loaded, action_log, stats, fr>>

\* setup_keyboard_shortcuts: KeyboardListener(), the first log entry
RtSetup(t) ==
    /\ pc[t] = "rt_setup"
    /\ action_log' = Logged(action_log, ActionLog("debug", "None", TRUE, "KeyboardListener created"))
    /\ fr' = [fr EXCEPT ![t].todo = ShortcutBindings(config_data)]
    /\ Goto(t, "rt_register")
    /\ UNCHANGED <<clientVars, regVars, exc, res, req, first, hnew, regLocals, calls,
                   config_data, issues, soundpad_client, rt_running, soundpad_connected,
                   shortcuts_loaded, stats>>

\* setup_keyboard_shortcuts: the next binding is registered under its id, with
\* the callback made for it; after the last one start() goes on
RtRegister(t) ==
    /\ pc[t] = "rt_register"
    /\ IF fr[t].todo = <<>>
       THEN /\ Goto(t, "rt_listen")
            /\ UNCHANGED arg
       ELSE LET b == Head(fr[t].todo)
            IN /\ arg' = [arg EXCEPT ![t] = [op |-> "register", id |-> b.id,
                                            keys |-> b.keys, cb |-> b.id, n |-> 0]]
               /\ Call(t, "reg_enter", "rt_registered")
    /\ UNCHANGED <<clientVars, regVars, exc, res, req, first, hnew, it, calls, rtVars>>

\* setup_keyboard_shortcuts after register_combination: log and count the
\* shortcut; `except Exception`: log, return False, and start() returns False
RtRegistered(t) ==
    /\ pc[t] = "rt_registered"
    /\ IF exc[t] # "none"
       THEN /\ action_log' = Logged(action_log, ActionLog("debug", "None", FALSE, exc[t]))
            /\ Goto(t, "rt_exit")
            /\ UNCHANGED <<shortcuts_loaded, fr>>
       ELSE /\ action_log' = Logged(action_log, ActionLog("debug", "None", TRUE, "Registered"))
            /\ shortcuts_loaded' = shortcuts_loaded + 1
            /\ fr' = [fr EXCEPT ![t].todo = Tail(@)]
            /\ Goto(t, "rt_register")
    /\ exc' = [exc EXCEPT ![t] = "none"]
    /\ res' = [res EXCEPT ![t] = <<>>]
    /\ arg' = [arg EXCEPT ![t] = NoArg]
    /\ UNCHANGED <<clientVars, regVars, req, first, hnew, it, calls,
                   config_data, issues, soundpad_client, rt_running, soundpad_connected,
                   stats>>

\* start(): "Starting keyboard listener..." and keyboard_listener.start()
RtListen(t) ==
    /\ pc[t] = "rt_listen"
    /\ action_log' = Logged(action_log, ActionLog("debug", "None", TRUE, "Starting keyboard listener..."))
    /\ arg' = [arg EXCEPT ![t] = [NoArg EXCEPT !.op = "start"]]
    /\ Call(t, "st_check", "rt_listening")
    /\ UNCHANGED <<clientVars, regVars, exc, res, req, first, hnew, it, calls,
                   config_data, issues, soundpad_client, rt_running, soundpad_connected,
                   shortcuts_loaded, stats, fr>>

\* start() after keyboard_listener.start(): self.running = True and the entry
\* "started"; `except Exception`: log and return False
RtListening(t) ==
    /\ pc[t] = "rt_listening"
    /\ IF exc[t] # "none"
       THEN /\ action_log' = Logged(action_log, ActionLog("debug", "None", FALSE, exc[t]))
            /\ Goto(t, "rt_exit")
            /\ UNCHANGED rt_running
       ELSE /\ rt_running' = TRUE
            /\ action_log' = Logged(action_log, ActionLog("started", "None", TRUE, "Loaded shortcuts"))
            /\ Goto(t, "rt_started")
    /\ exc' = [exc EXCEPT ![t] = "none"]
    /\ res' = [res EXCEPT ![t] = <<>>]
    /\ arg' = [arg EXCEPT ![t] = NoArg]
    /\ it' = [it EXCEPT ![t] = 0]
    /\ UNCHANGED <<clientVars, regVars, req, first, hnew, calls,
                   config_data, issues, soundpad_client, soundpad_connected,
                   shortcuts_loaded, stats, fr>>

\* start(): "Keyboard listener started successfully", then the loop
RtStarted(t) ==
    /\ pc[t] = "rt_started"
    /\ action_log' = Logged(action_log, ActionLog("debug", "None", TRUE, "Keyboard listener started successfully"))
    /\ Goto(t, "rt_loop")
    /\ UNCHANGED <<clientVars, regVars, exc, res, req, first, hnew, regLocals, calls,
                   config_data, issues, soundpad_client, rt_running, soundpad_connected,
                   shortcuts_loaded, stats, fr>>

\* `while self.running:` of run_interactive_mode and run_background_mode: one
\* more period, in which monitor_soundpad_connection calls is_alive()
RtPeriod(t) ==
    /\ pc[t] = "rt_loop"
    /\ IF ~rt_running
       THEN /\ Goto(t, "rt_exit")
            /\ UNCHANGED req
       ELSE /\ soundpad_client
            /\ req' = [req EXCEPT ![t] = IsAliveRequest]
            /\ Call(t, "init", "rt_probed")
    /\ UNCHANGED <<clientVars, regVars, exc, res, first, hnew, regLocals, rtVars>>

\* the periods of the loop counted among the events of a run
RtLoop(t) ==
    /\ RtPeriod(t)
    /\ IF rt_running
       THEN calls < MaxEvents /\ calls' = calls + 1
       ELSE UNCHANGED calls

MutRtProbed(t) ==
    /\ pc[t] = "rt_probed"
    /\ LET is_alive == IsSuccess(res[t])
       IN IF exc[t] # "none"
          THEN IF soundpad_connected
               THEN /\ soundpad_connected' = FALSE
                    /\ UNCHANGED action_log
               ELSE UNCHANGED <<soundpad_connected, action_log>>
          ELSE IF is_alive /\ ~soundpad_connected
          THEN /\ soundpad_connected' = TRUE
               /\ action_log' = Logged(action_log, ActionLog("reconnected", "None", TRUE, "Soundpad connection restored"))
          ELSE IF ~is_alive /\ soundpad_connected
          THEN /\ soundpad_connected' = FALSE
               /\ action_log' = Logged(action_log, ActionLog("disconnected", "None", FALSE, "Lost connection to Soundpad"))
          ELSE UNCHANGED <<soundpad_connected, action_log>>
    /\ exc' = [exc EXCEPT ![t] = "none"]
    /\ res' = [res EXCEPT ![t] = <<>>]
    /\ req' = [req EXCEPT ![t] = NoReq]
    /\ Goto(t, "rt_loop")
    /\ UNCHANGED <<clientVars, regVars, first, hnew, regLocals, calls,
                   config_data, issues, soundpad_client, rt_running,
                   shortcuts_loaded, stats, fr>>

\* monitor_soundpad_connection after is_alive(): the flag follows the answer,
\* and a change of the flag is logged; the bare `except:` clears the flag
RtProbed(t) ==
    /\ pc[t] = "rt_probed"
    /\ LET is_alive == IsSuccess(res[t])
       IN IF exc[t] # "none"
          THEN IF soundpad_connected
               THEN /\ soundpad_connected' = FALSE
                    /\ action_log' = Logged(action_log, ActionLog("disconnected", "None", FALSE, "Connection error"))
               ELSE UNCHANGED <<soundpad_connected, action_log>>
          ELSE IF is_alive /\ ~soundpad_connected
          THEN /\ soundpad_connected' = TRUE
               /\ action_log' = Logged(action_log, ActionLog("reconnected", "None", TRUE, "Soundpad connection restored"))
          ELSE IF ~is_alive /\ soundpad_connected
          THEN /\ soundpad_connected' = FALSE
               /\ action_log' = Logged(action_log, ActionLog("disconnected", "None", FALSE, "Lost connection to Soundpad"))
          ELSE UNCHANGED <<soundpad_connected, action_log>>
    /\ exc' = [exc EXCEPT ![t] = "none"]
    /\ res' = [res EXCEPT ![t] = <<>>]
    /\ req' = [req EXCEPT ![t] = NoReq]
    /\ Goto(t, "rt_loop")
    /\ UNCHANGED <<clientVars, regVars, first, hnew, regLocals, calls,
                   config_data, issues, soundpad_client, rt_running,
                   shortcuts_loaded, stats, fr>>

\* SIGINT or SIGTERM: the handlers are set in __init__, and the main thread
\* runs signal_handler between two of its statements, here while the loop
\* sleeps or inside keyboard_listener.start().  signal_handler calls stop(),
\* which clears self.running and calls keyboard_listener.stop(), and then
\* sys.exit(0): what the main thread was doing is abandoned
RtSignal(t) ==
    /\ \/ pc[t] = "rt_loop" /\ rt_running
       \/ pc[t] \in {"st_iter", "st_set"}
    /\ calls < MaxEvents
    /\ calls' = calls + 1
    /\ rt_running' = FALSE
    /\ arg' = [arg EXCEPT ![t] = [NoArg EXCEPT !.op = "stop"]]
    /\ pc' = [pc EXCEPT ![t] = "sp_check"]
    /\ stk' = [stk EXCEPT ![t] = <<"rt_stop_client">>]
    /\ UNCHANGED <<clientVars, regVars, exc, res, req, first, hnew, it,
                   config_data, issues, soundpad_client, soundpad_connected,
                   shortcuts_loaded, action_log, stats, fr>>

\* stop(): `if self.soundpad_client: self.soundpad_client.uninit()`
RtStopClient(t) ==
    /\ pc[t] = "rt_stop_client"
    /\ arg' = [arg EXCEPT ![t] = NoArg]
    /\ it' = [it EXCEPT ![t] = 0]
    /\ IF soundpad_client
       THEN Call(t, "un3_check", "rt_stop_log")
       ELSE Goto(t, "rt_stop_log")
    /\ UNCHANGED <<clientVars, regVars, exc, res, req, first, hnew, calls, rtVars>>

\* stop(): the entry "stopped", and sys.exit(0) of signal_handler; an exception
\* of uninit() leaves stop() and is logged by the loop, which then ends
RtStopLog(t) ==
    /\ pc[t] = "rt_stop_log"
    /\ action_log' =
          Logged(action_log,
                 IF exc[t] # "none"
                 THEN ActionLog("error", "None", FALSE, exc[t])
                 ELSE ActionLog("stopped", "None", TRUE, "Application shutdown"))
    /\ exc' = [exc EXCEPT ![t] = "none"]
    /\ Goto(t, "rt_exit")
    /\ UNCHANGED <<clientVars, regVars, res, req, first, hnew, regLocals, calls,
                   config_data, issues, soundpad_client, rt_running, soundpad_connected,
                   shortcuts_loaded, stats, fr>>

(***************************************************************************)
(* SoundpadRuntime.log_action statement by statement, called by the main   *)
(* thread (monitor_soundpad_connection) and by the thread of the backend   *)
(* (the callbacks) on a log that already holds LogCap - 1 entries; calls   *)
(* counts the calls after these.  The n-th entry logged carries the        *)
(* number n.                                                               *)
(***************************************************************************)
\* calls of log_action after the first LogCap - 1
MaxLogCalls == 4

LogThreads == {"loop", "hook"}

Numbered(n) == ActionLog("debug", "None", TRUE, n)

\* self.action_log.append(log_entry)
LogAppend(t) ==
    /\ pc[t] = "idle"
    /\ calls < MaxLogCalls
    /\ calls' = calls + 1
    /\ action_log' = Append(action_log, Numbered(LogCap + calls))
    /\ Goto(t, "log_check")
    /\ UNCHANGED <<clientVars, regVars, exc, res, req, first, hnew, regLocals,
                   config_data, issues, soundpad_client, rt_running, soundpad_connected,
                   shortcuts_loaded, stats, fr>>

\* `if len(self.action_log) > 50:`
LogCheck(t) ==
    /\ pc[t] = "log_check"
    /\ Goto(t, IF Len(action_log) > LogCap THEN "log_slice" ELSE "idle")
    /\ UNCHANGED <<clientVars, regVars, exc, res, req, first, hnew, regLocals, rtVars, calls>>

\* self.action_log[-50:], a new list
LogSlice(t) ==
    /\ pc[t] = "log_slice"
    /\ fr' = [fr EXCEPT ![t].recent =
                 SubSeq(action_log, IF Len(action_log) > LogCap
                                    THEN Len(action_log) - LogCap + 1 ELSE 1,
                        Len(action_log))]
    /\ Goto(t, "log_assign")
    /\ UNCHANGED <<clientVars, regVars, exc, res, req, first, hnew, regLocals, calls,
                   config_data, issues, soundpad_client, rt_running, soundpad_connected,
                   shortcuts_loaded, action_log, stats>>

\* self.action_log = <the new list>
LogAssign(t) ==
    /\ pc[t] = "log_assign"
    /\ action_log' = fr[t].recent
    /\ fr' = [fr EXCEPT ![t].recent = <<>>]
    /\ Goto(t, "idle")
    /\ UNCHANGED <<clientVars, regVars, exc, res, req, first, hnew, regLocals, calls,
                   config_data, issues, soundpad_client, rt_running, soundpad_connected,
                   shortcuts_loaded, stats>>

LogStep(t) == LogAppend(t) \/ LogCheck(t) \/ LogSlice(t) \/ LogAssign(t)

InitLog ==
    /\ ClientInitState /\ srv = "up"
    /\ ThreadInitState
    /\ RegistryInitState
    /\ config_data = NoConfig /\ issues = {}
    /\ soundpad_client = FALSE /\ rt_running = TRUE /\ soundpad_connected = FALSE
    /\ shortcuts_loaded = 0
    /\ stats = [sounds_played |-> 0, pauses_triggered |-> 0, errors |-> 0, last_action |-> "None"]
    /\ fr = [t \in Threads |-> NoFrame]
    /\ action_log = [n \in 1..(LogCap - 1) |-> Numbered(n)]

SpecLog == InitLog /\ [][\E t \in LogThreads : LogStep(t)]_vars

\* no thread is inside log_action
LogQuiet == \A t \in LogThreads : pc[t] = "idle"

(***************************************************************************)
(* C19.  After n calls of log_action the log holds the most recent         *)
(* min(n, 50) entries, in the order they were logged, and so at most 50.   *)
(***************************************************************************)
C19_LogIsRecent ==
    LogQuiet =>
       LET n == LogCap - 1 + calls
           k == IF n < LogCap THEN n ELSE LogCap
       IN /\ Len(action_log) = k
          /\ \A i \in 1..k : action_log[i] = Numbered(n - k + i)

(***************************************************************************)
(* The classification of a response, over response texts character by      *)
(* character: _is_success and _handle_error_response, applied as add_sound *)
(* and the other commands apply them to what send_request_safe returned.   *)
(***************************************************************************)
\* the longest response text before its last character
MaxLen == 5

Chars == {"R", "-", "0", "2", "3", "4", "5"}

\* the response texts: every text over Chars up to MaxLen, alone or followed
\* by one more character
ResponseTexts ==
    {base \o tail : base \in UNION {[1..n -> Chars] : n \in 0..MaxLen},
                    tail \in {<<>>, <<"0">>, <<"x">>}}

\* str.startswith(prefix)
StartsWith(r, prefix) ==
    Len(r) >= Len(prefix) /\ SubSeq(r, 1, Len(prefix)) = prefix

\* response[:n]
Take(r, n) == SubSeq(r, 1, IF Len(r) < n THEN Len(r) ELSE n)

MutIsSuccessResponse(r) == StartsWith(r, <<"R", "-", "2">>)

\* _is_success: response.startswith("R-200")
IsSuccessResponse(r) == StartsWith(r, <<"R", "-", "2", "0", "0">>)

\* the dict error_messages of _handle_error_response, each message by its head
ErrorMessages ==
    {<<(<<"R", "-", "4", "0", "0">>), "Bad Request">>,
     <<(<<"R", "-", "4", "0", "4">>), "Not Found">>,
     <<(<<"R", "-", "4", "0", "3">>), "Forbidden">>,
     <<(<<"R", "-", "5", "0", "0">>), "Internal Server Error">>,
     <<(<<"R", "-", "5", "0", "3">>), "Service Unavailable">>}

\* _handle_error_response: the head of the message it returns
HandleErrorResponse(r) ==
    IF r = <<>>
    THEN "No response from Soundpad"
    ELSE IF StartsWith(r, <<"R", "-">>)
    THEN LET error_code == Take(r, 5)
         IN IF \E m \in ErrorMessages : m[1] = error_code
            THEN (CHOOSE m \in ErrorMessages : m[1] = error_code)[2]
            ELSE "Soundpad error"
    ELSE "Unexpected response"

\* success = self._is_success(response) and the message for the response
Classify(t) ==
    /\ pc[t] = "classify"
    /\ fr' = [fr EXCEPT ![t].status =
                 [success |-> IsSuccessResponse(res[t]),
                  error_msg |-> HandleErrorResponse(res[t])]]
    /\ Goto(t, "classified")
    /\ UNCHANGED <<clientVars, regVars, exc, res, req, first, hnew, regLocals, calls,
                   config_data, issues, soundpad_client, rt_running, soundpad_connected,
                   shortcuts_loaded, action_log, stats>>

InitClassify ==
    /\ ClientInitState /\ srv = "up"
    /\ RegistryInitState
    /\ RuntimeInitState /\ config_data = NoConfig
    /\ pc = [t \in Threads |-> IF t = "loop" THEN "classify" ELSE "idle"]
    /\ stk = [t \in Threads |-> <<>>]
    /\ req = [t \in Threads |-> NoReq]
    /\ first = [t \in Threads |-> <<>>]
    /\ hnew = [t \in Threads |-> 0]
    /\ exc = [t \in Threads |-> "none"]
    /\ \E r \in ResponseTexts : res = [t \in Threads |-> IF t = "loop" THEN r ELSE <<>>]

SpecClassify == InitClassify /\ [][Classify("loop")]_vars

\* the response of the main thread has been classified
Classified == pc["loop"] = "classified"

(***************************************************************************)
(* C20.  The classification of every response text: it is a success       *)
(* exactly when it starts with "R-200"; a text that starts with "R-400",   *)
(* "R-404", "R-403", "R-500" or "R-503" gets the message Bad Request, Not  *)
(* Found, Forbidden, Internal Server Error or Service Unavailable; any     *)
(* other text that starts with "R-" and is not a success gets the message  *)
(* for an unknown code; the empty text gets "No response".                 *)
(***************************************************************************)
C20_ResponseClassified ==
    Classified =>
       LET r == res["loop"]
           out == fr["loop"].status
           Code(a, b, c) == <<"R", "-", a, b, c>>
       IN /\ out.success <=> StartsWith(r, Code("2", "0", "0"))
          /\ StartsWith(r, Code("4", "0", "0")) => out.error_msg = "Bad Request"
          /\ StartsWith(r, Code("4", "0", "4")) => out.error_msg = "Not Found"
          /\ StartsWith(r, Code("4", "0", "3")) => out.error_msg = "Forbidden"
          /\ StartsWith(r, Code("5", "0", "0")) => out.error_msg = "Internal Server Error"
          /\ StartsWith(r, Code("5", "0", "3")) => out.error_msg = "Service Unavailable"
          /\ (/\ StartsWith(r, <<"R", "-">>)
              /\ \A c \in {Code("2", "0", "0"), Code("4", "0", "0"), Code("4", "0", "4"),
                            Code("4", "0", "3"), Code("5", "0", "0"), Code("5", "0", "3")} :
                    ~StartsWith(r, c))
             => out.error_msg = "Soundpad error"
          /\ r = <<>> => (out.error_msg = "No response from Soundpad" /\ ~out.success)

\* "R-404x" has been classified: Not Found, and no success
C20_Witness ==
    /\ Classified
    /\ res["loop"] = <<"R", "-", "4", "0", "4", "x">>
    /\ fr["loop"].status = [success |-> FALSE, error_msg |-> "Not Found"]

(***************************************************************************)
(* The callbacks of create_category_callback and create_pause_callback,    *)
(* which the backend calls one at a time on its thread.  The callback of   *)
(* a binding is named by the id of the binding.                            *)
(***************************************************************************)
\* the category whose callback is cb (the closure holds its name and config)
CategoryOfCallback(cb) ==
    LET i == CHOOSE j \in 1..Len(config_data.categories) :
                 "category_" \o config_data.categories[j].name = cb
    IN config_data.categories[i]

IsCategoryCallback(cb) ==
    \E j \in 1..Len(config_data.categories) :
        "category_" \o config_data.categories[j].name = cb

\* the entry a callback logs when its action failed
FailedEntry(cb, details) ==
    IF IsCategoryCallback(cb)
    THEN ActionLog("play_failed", CategoryOfCallback(cb).name, FALSE, details)
    ELSE ActionLog("pause_failed", "None", FALSE, details)

MutCountError(st) == st

\* self.stats['errors'] += 1
CountError(st) == [st EXCEPT !.errors = @ + 1]

\* SoundpadClient.get_play_status: STOPPED for an error response and for a
\* text that is no PlayStatus
MutPlayStatusOf(r) ==
    IF Whole(r) /\ r[1].val \in {"PLAYING", "PAUSED"} THEN r[1].val ELSE "PAUSED"

PlayStatusOf(r) ==
    IF Whole(r) /\ r[1].val \in {"PLAYING", "PAUSED"} THEN r[1].val ELSE "STOPPED"

\* `stats['last_action'] = ...` of the three branches under `if success:`
PauseAction(status) ==
    CASE status = "PLAYING" -> "Paused sound"
      [] status = "PAUSED"  -> "Resumed sound"
      [] OTHER              -> "Toggled pause/resume"

\* the action name logged by the same three branches
PauseLogAction(status) ==
    CASE status = "PLAYING" -> "pause_sound"
      [] status = "PAUSED"  -> "resume_sound"
      [] OTHER              -> "toggle_pause"

\* a key event on a live hook: the backend calls the callback, which logs that
\* it was triggered
KeyEvent(k) ==
    /\ pc["hook"] = "idle"
    /\ pc["loop"] # "rt_exit"
    /\ k \in kbHooks
    /\ calls < MaxEvents
    /\ calls' = calls + 1
    /\ fr' = [fr EXCEPT !["hook"] =
                 [NoFrame EXCEPT !.cb = k.cb,
                                 !.s0 = stats.sounds_played,
                                 !.p0 = stats.pauses_triggered,
                                 !.e0 = stats.errors,
                                 !.l0 = Len(action_log)]]
    /\ action_log' = Logged(action_log,
                            ActionLog("debug",
                                      IF IsCategoryCallback(k.cb)
                                      THEN CategoryOfCallback(k.cb).name ELSE "None",
                                      TRUE, "Shortcut triggered"))
    /\ Goto("hook", "cb_check")
    /\ UNCHANGED <<clientVars, regVars, exc, res, req, first, hnew, regLocals,
                   config_data, issues, soundpad_client, rt_running, soundpad_connected,
                   shortcuts_loaded, stats>>

\* `if not self.soundpad_client or not self.soundpad_connected:` log and
\* return; otherwise the try block: get_app_settings() and
\* play_random_sound_from_category(id, ...), or get_play_status()
CbCheck(t) ==
    /\ pc[t] = "cb_check"
    /\ IF ~soundpad_client \/ ~soundpad_connected
       THEN /\ action_log' = Logged(action_log, FailedEntry(fr[t].cb, "Not connected to Soundpad"))
            /\ Goto(t, "cb_ret")
            /\ UNCHANGED <<req, stats, fr>>
       ELSE IF IsCategoryCallback(fr[t].cb) /\ ~config_data.settings_ok
       THEN /\ fr' = [fr EXCEPT ![t].e = "TypeError"]
            /\ stats' = CountError(stats)
            /\ action_log' = Logged(action_log, FailedEntry(fr[t].cb, "TypeError"))
            /\ Goto(t, "cb_ret")
            /\ UNCHANGED req
       ELSE /\ fr' = [fr EXCEPT ![t].sent = @ + 1]
            /\ IF IsCategoryCallback(fr[t].cb)
               THEN /\ req' = [req EXCEPT ![t] =
                                  [verb |-> "DoPlayRandomSoundFromCategory",
                                   cat |-> CategoryOfCallback(fr[t].cb).soundpad_category_id]]
                    /\ Call(t, "init", "cb_played")
               ELSE /\ req' = [req EXCEPT ![t] = [verb |-> "GetPlayStatus", cat |-> 0]]
                    /\ Call(t, "init", "cb_status")
            /\ UNCHANGED <<action_log, stats>>
    /\ UNCHANGED <<clientVars, regVars, exc, res, first, hnew, regLocals, calls,
                   config_data, issues, soundpad_client, rt_running, soundpad_connected,
                   shortcuts_loaded>>

\* the category callback after play_random_sound_from_category: `if success:`
\* count and log the sound, `else:` count and log the error; `except
\* Exception as e:` count and log the error
CbPlayed(t) ==
    /\ pc[t] = "cb_played"
    /\ LET name == CategoryOfCallback(fr[t].cb).name
       IN IF exc[t] # "none"
          THEN /\ fr' = [fr EXCEPT ![t].e = exc[t]]
               /\ stats' = CountError(stats)
               /\ action_log' = Logged(action_log, FailedEntry(fr[t].cb, exc[t]))
          ELSE IF IsSuccess(res[t])
          THEN /\ stats' = [stats EXCEPT !.sounds_played = @ + 1, !.last_action = "Played"]
               /\ action_log' = Logged(action_log, ActionLog("play_sound", name, TRUE, ""))
               /\ UNCHANGED fr
          ELSE /\ stats' = CountError(stats)
               /\ action_log' = Logged(action_log, FailedEntry(fr[t].cb, "Soundpad command failed"))
               /\ UNCHANGED fr
    /\ exc' = [exc EXCEPT ![t] = "none"]
    /\ Goto(t, "cb_ret")
    /\ UNCHANGED <<clientVars, regVars, res, req, first, hnew, regLocals, calls,
                   config_data, issues, soundpad_client, rt_running, soundpad_connected,
                   shortcuts_loaded>>

\* the pause callback after get_play_status(): toggle_pause()
CbStatus(t) ==
    /\ pc[t] = "cb_status"
    /\ IF exc[t] # "none"
       THEN /\ fr' = [fr EXCEPT ![t].e = exc[t]]
            /\ stats' = CountError(stats)
            /\ action_log' = Logged(action_log, FailedEntry(fr[t].cb, exc[t]))
            /\ Goto(t, "cb_ret")
            /\ UNCHANGED <<req, res>>
       ELSE /\ fr' = [fr EXCEPT ![t].status = PlayStatusOf(res[t]), ![t].sent = @ + 1]
            /\ req' = [req EXCEPT ![t] = [verb |-> "DoTogglePause", cat |-> 0]]
            /\ res' = [res EXCEPT ![t] = <<>>]
            /\ Call(t, "init", "cb_toggled")
            /\ UNCHANGED <<stats, action_log>>
    /\ exc' = [exc EXCEPT ![t] = "none"]
    /\ UNCHANGED <<clientVars, regVars, first, hnew, regLocals, calls,
                   config_data, issues, soundpad_client, rt_running, soundpad_connected,
                   shortcuts_loaded>>

MutCountPause(st, status) == [st EXCEPT !.last_action = PauseAction(status)]

\* self.stats['pauses_triggered'] += 1 and the assignment of last_action
CountPause(st, status) ==
    [st EXCEPT !.pauses_triggered = @ + 1, !.last_action = PauseAction(status)]

\* the pause callback after toggle_pause(): `if success:` count the pause and
\* log what the status before says was done, `else:` count and log the error;
\* `except Exception as e:` count and log the error
CbToggled(t) ==
    /\ pc[t] = "cb_toggled"
    /\ IF exc[t] # "none"
       THEN /\ fr' = [fr EXCEPT ![t].e = exc[t]]
            /\ stats' = CountError(stats)
            /\ action_log' = Logged(action_log, FailedEntry(fr[t].cb, exc[t]))
       ELSE IF IsSuccess(res[t])
       THEN /\ stats' = CountPause(stats, fr[t].status)
            /\ action_log' =
                  Logged(action_log,
                         ActionLog(PauseLogAction(fr[t].status), "None", TRUE, ""))
            /\ UNCHANGED fr
       ELSE /\ stats' = CountError(stats)
            /\ action_log' = Logged(action_log, FailedEntry(fr[t].cb, "Soundpad command failed"))
            /\ UNCHANGED fr
    /\ exc' = [exc EXCEPT ![t] = "none"]
    /\ Goto(t, "cb_ret")
    /\ UNCHANGED <<clientVars, regVars, res, req, first, hnew, regLocals, calls,
                   config_data, issues, soundpad_client, rt_running, soundpad_connected,
                   shortcuts_loaded>>

\* the callback returns to the backend
CbReturn(t) ==
    /\ pc[t] = "cb_ret"
    /\ fr' = [fr EXCEPT ![t] = NoFrame]
    /\ req' = [req EXCEPT ![t] = NoReq]
    /\ res' = [res EXCEPT ![t] = <<>>]
    /\ Goto(t, "idle")
    /\ UNCHANGED <<clientVars, regVars, exc, first, hnew, regLocals, calls,
                   config_data, issues, soundpad_client, rt_running, soundpad_connected,
                   shortcuts_loaded, action_log, stats>>

(***************************************************************************)
(* The program: a configuration file, the remote process in any state,     *)
(* and start() called on the main thread.                                  *)
(***************************************************************************)
Category(name, id, keys, enabled) ==
    [name |-> name, soundpad_category_id |-> id, keyboard_shortcut |-> keys,
     enabled |-> enabled]

\* the configuration files of the model: one category and a pause/resume
\* shortcut; a category and a pause/resume shortcut with the same keys; an
\* enabled and a disabled category with the same keys, no pause/resume
\* shortcut, and a `settings` section that AppSettings(**settings) rejects
Configs ==
    {[categories |-> <<Category("a", 5, <<"ctrl", "1">>, TRUE)>>,
      stop_playback |-> <<"ctrl", "p">>, settings_ok |-> TRUE],
     [categories |-> <<Category("a", 5, <<"ctrl", "1">>, TRUE)>>,
      stop_playback |-> <<"ctrl", "1">>, settings_ok |-> TRUE],
     [categories |-> <<Category("a", 5, <<"alt", "2">>, TRUE),
                       Category("b", 2, <<"alt", "2">>, FALSE)>>,
      stop_playback |-> <<>>, settings_ok |-> FALSE]}

Init ==
    /\ ClientInitState
    /\ RegistryInitState
    /\ RuntimeInitState
    /\ FramesInitState
    /\ pc = [t \in Threads |-> IF t = "loop" THEN "rt_config" ELSE "idle"]
    /\ config_data \in Configs
    /\ srv \in {"up", "down"}

\* the remote process starts or exits
EnvEvent ==
    /\ calls < MaxEvents
    /\ calls' = calls + 1
    /\ \E s \in {"up", "down"} : SrvChange(s)

\* the methods of the listener that the runtime calls: register_combination
\* before start(), start() and stop()
ListenerStep(t) ==
    \/ RegisterEnter(t)
    \/ RegisterRunning(t)
    \/ StartCheck(t)
    \/ StartIter(t)
    \/ StartSet(t)
    \/ StopCheck(t)
    \/ StopSet(t)
    \/ StopIter(t)
    \/ StopClear(t)

\* runtime stop() and the uninit() it calls
RtStopStep(t) ==
    \/ RtStopClient(t)
    \/ RtStopLog(t)
    \/ \E site \in {"un3"} : UninitCheck(t, site)
    \/ \E site \in {"un3"} : UninitClose(t, site)
    \/ \E site \in {"un3"} : UninitNone(t, site)

\* start() up to the loop
RtStartStep(t) ==
    \/ RtInitConfig(t)
    \/ RtConnect(t)
    \/ RtAlive(t)
    \/ RtSetup(t)
    \/ RtRegister(t)
    \/ RtRegistered(t)
    \/ RtListen(t)
    \/ RtListening(t)
    \/ RtStarted(t)

RuntimeStep(t) ==
    \/ RtInitConfig(t)
    \/ RtConnect(t)
    \/ RtAlive(t)
    \/ RtSetup(t)
    \/ RtRegister(t)
    \/ RtRegistered(t)
    \/ RtListen(t)
    \/ RtListening(t)
    \/ RtStarted(t)
    \/ RtLoop(t)
    \/ RtProbed(t)
    \/ RtSignal(t)
    \/ RtStopClient(t)
    \/ RtStopLog(t)
    \/ \E site \in {"un3"} : UninitCheck(t, site)
    \/ \E site \in {"un3"} : UninitClose(t, site)
    \/ \E site \in {"un3"} : UninitNone(t, site)

CallbackStep(t) ==
    \/ CbCheck(t)
    \/ CbPlayed(t)
    \/ CbStatus(t)
    \/ CbToggled(t)
    \/ CbReturn(t)

Next ==
    \/ RuntimeStep("loop")
    \/ ListenerStep("loop")
    \/ \E t \in ClientThreads : ClientStep(t)
    \/ \E k \in kbHooks : KeyEvent(k)
    \/ CallbackStep("hook")
    \/ EnvEvent

Spec == Init /\ [][Next]_vars

\* runtime stop() is past keyboard_listener.stop(): it is at, or inside,
\* soundpad_client.uninit(), or at its last log entry
ListenerStopReturned ==
    pc["loop"] \in {"rt_stop_client", "un3_check", "un3_close", "un3_none", "rt_stop_log"}

\* runtime stop() is inside keyboard_listener.stop()
InListenerStop ==
    pc["loop"] \in {"sp_check", "sp_set", "sp_iter", "sp_clear"}

(***************************************************************************)
(* C14.  In runtime stop(), whether called by the signal handler or not,   *)
(* keyboard_listener.stop() is over before the client is closed by stop()  *)
(* and before the entry "stopped" is logged, and once it has returned no   *)
(* hook is live, so that no callback can start.                            *)
(***************************************************************************)
C14_StoppedBeforeTeardown ==
    /\ InListenerStop =>
          \A i \in 1..Len(action_log) : action_log[i].action # "stopped"
    /\ ListenerStopReturned => kbHooks = {}

\* the main thread and the thread of the backend both run when they can
FairSpec ==
    /\ Spec
    /\ WF_vars(RuntimeStep("loop") \/ ListenerStep("loop") \/ ClientStep("loop"))
    /\ WF_vars(CallbackStep("hook") \/ ClientStep("hook"))

\* connect_to_soundpad has the answer of the first is_alive()
ProbeAnswered(ok) ==
    /\ pc["loop"] = "rt_alive"
    /\ ok = (exc["loop"] = "none" /\ IsSuccess(res["loop"]))

\* start() has started the listener and set self.running: every handler the
\* listener holds is a hook of the backend
EnteredRunning ==
    /\ pc["loop"] = "rt_started"
    /\ rt_running /\ running
    /\ {k.h : k \in kbHooks} = {hotkey_handlers[i].h : i \in 1..Len(hotkey_handlers)}

\* a signal has made the main thread call stop()
Signalled == pc["loop"] = "sp_check" /\ stk["loop"] = <<"rt_stop_client">>

MainStep(t) ==
    \/ RtStartStep(t)
    \/ RtPeriod(t) /\ UNCHANGED calls
    \/ RtProbed(t)
    \/ RtSignal(t)
    \/ RtStopStep(t)
    \/ ListenerStep(t)
    \/ ClientStep(t)

NextMonitor ==
    \/ MainStep("loop")
    \/ EnvEvent
    \/ \E k \in kbHooks : KeyEvent(k)
    \/ CallbackStep("hook")
    \/ ClientStep("hook")

SpecMonitor == Init /\ [][NextMonitor]_vars

\* the main thread and the thread of the backend run when they can
FairMonitor ==
    /\ SpecMonitor
    /\ WF_vars(MainStep("loop"))
    /\ WF_vars(CallbackStep("hook") \/ ClientStep("hook"))

\* the answer monitor_soundpad_connection has from is_alive(): False when
\* the call raised
ProbeResult == exc["loop"] = "none" /\ IsSuccess(res["loop"])

(***************************************************************************)
(* C16.  While the runtime runs, after each probe of the loop the flag     *)
(* soundpad_connected equals the result of that probe (a failed probe      *)
(* clears it, a successful one sets it), and when the remote process is    *)
(* reachable and stays so while the loop runs, the flag becomes true.      *)
(***************************************************************************)
C16_FlagFollowsProbe ==
    /\ [][(pc["loop"] = "rt_probed" /\ pc'["loop"] # "rt_probed")
            => soundpad_connected' = ProbeResult]_vars
    /\ ((rt_running /\ srv = "up") ~> (soundpad_connected \/ srv # "up" \/ ~rt_running))

\* the main thread is inside the is_alive() of a period of the loop
InProbe == stk["loop"] = <<"rt_probed">>

\* the loop is at its `while self.running:`
AtLoopHead == pc["loop"] = "rt_loop"

(***************************************************************************)
(* C17.  The supervising loop is not ended by a failed probe or command    *)
(* or by an exception inside a period: after a probe, whatever it gave,    *)
(* the loop is at its head again, and it is left only with self.running    *)
(* cleared by stop(); while self.running is set every period comes to its  *)
(* end; after a signal the main thread eventually exits.                   *)
(***************************************************************************)
C17_LoopSurvives ==
    /\ [][pc["loop"] = "rt_probed" => pc'["loop"] \in {"rt_probed", "rt_loop"}]_vars
    /\ [][(AtLoopHead /\ pc'["loop"] \notin {"rt_loop", "init"}) => ~rt_running']_vars
    /\ ((InProbe /\ rt_running) ~> AtLoopHead)
    /\ (Signalled ~> pc["loop"] = "rt_exit")

(***************************************************************************)
(* What is seen of a callback when it returns to the backend.              *)
(***************************************************************************)
\* the callback on the hook thread is about to return
CallbackOver == pc["hook"] = "cb_ret"

\* it is the callback of a category
CategoryCallbackOver == CallbackOver /\ IsCategoryCallback(fr["hook"].cb)

(***************************************************************************)
(* C5.  A callback that runs to its end without a fault has passed a       *)
(* request to the client, whatever the value of soundpad_connected was     *)
(* when the hotkey fired.                                                  *)
(***************************************************************************)
C5_CallIssued ==
    (CallbackOver /\ fr["hook"].e = "none") => fr["hook"].sent >= 1

(***************************************************************************)
(* C6.  No exception leaves a callback; a callback in which a fault was    *)
(* raised has incremented stats['errors'] by exactly 1 and has appended a  *)
(* failed entry (play_failed or pause_failed) that names the fault.        *)
(***************************************************************************)
C6_FaultsCounted ==
    /\ pc["hook"] \in {"cb_ret", "idle"} => exc["hook"] = "none"
    /\ (CallbackOver /\ fr["hook"].e # "none") =>
          /\ stats.errors = fr["hook"].e0 + 1
          /\ stats.sounds_played = fr["hook"].s0
          /\ stats.pauses_triggered = fr["hook"].p0
          /\ \E i \in (fr["hook"].l0 + 1)..Len(action_log) :
                /\ action_log[i] = FailedEntry(fr["hook"].cb, fr["hook"].e)
                /\ ~action_log[i].success

\* the client raised in the callback of a category (bytes that are not UTF-8),
\* and the fault was counted
C6_Witness ==
    /\ CategoryCallbackOver
    /\ fr["hook"].e = "UnicodeDecodeError"
    /\ fr["hook"].sent = 1
    /\ stats.errors = fr["hook"].e0 + 1

(***************************************************************************)
(* C7.  The callback of a category, when no fault is raised, has passed    *)
(* exactly one request to the client, DoPlayRandomSoundFromCategory for    *)
(* the id of the category; a success response has incremented             *)
(* sounds_played by 1 and left errors, any other response has incremented  *)
(* errors by 1 and left sounds_played.                                     *)
(***************************************************************************)
C7_OneRequestCounted ==
    (CategoryCallbackOver /\ fr["hook"].e = "none") =>
       LET f == fr["hook"]
       IN /\ f.sent = 1
          /\ req["hook"] = [verb |-> "DoPlayRandomSoundFromCategory",
                            cat |-> CategoryOfCallback(f.cb).soundpad_category_id]
          /\ IsSuccess(res["hook"]) =>
                (stats.sounds_played = f.s0 + 1 /\ stats.errors = f.e0)
          /\ ~IsSuccess(res["hook"]) =>
                (stats.errors = f.e0 + 1 /\ stats.sounds_played = f.s0)

(***************************************************************************)
(* C18.  While the remote process is unreachable every hotkey action that  *)
(* fires is counted as an error: in a run in which the remote process is   *)
(* never there, every callback, of a category or of pause/resume, returns  *)
(* with errors exactly one more than when it was entered.                  *)
(***************************************************************************)
C18_UnreachableCounted ==
    [](srv = "down") => [](CallbackOver => stats.errors = fr["hook"].e0 + 1)

(***************************************************************************)
(* C8.  In the running program no two hooks are live together whose        *)
(* bindings are enabled and have key combinations that are equal as sets   *)
(* after normalize_key_combination.                                        *)
(***************************************************************************)
C8_NoConflictLive ==
    \A k1, k2 \in kbHooks :
       (/\ k1.h # k2.h
        /\ Stored(k1.cb) /\ Binding(k1.cb).enabled
        /\ Stored(k2.cb) /\ Binding(k2.cb).enabled)
       => KeySet(NormalizeKeyCombination(Binding(k1.cb).keys))
             # KeySet(NormalizeKeyCombination(Binding(k2.cb).keys))

(***************************************************************************)
(* The search for conflicts on its own: any three key lists for two        *)
(* categories and the pause/resume shortcut, and validate_config.          *)
(***************************************************************************)
KeyLists ==
    {<<>>, <<"ctrl", "1">>, <<"1", "ctrl">>, <<"Ctrl", "1">>, <<"control", "1">>,
     <<"ctrl", "ctrl", "1">>, <<"alt", "1">>}

ResolverConfigs ==
    {[categories |-> <<Category("a", 5, ka, TRUE), Category("b", 2, kb, TRUE)>>,
      stop_playback |-> kp, settings_ok |-> TRUE] :
        ka \in KeyLists, kb \in KeyLists, kp \in KeyLists}

InitResolver ==
    /\ ClientInitState /\ srv = "up"
    /\ RegistryInitState
    /\ RuntimeInitState
    /\ FramesInitState
    /\ pc = [t \in Threads |-> IF t = "loop" THEN "rt_config" ELSE "idle"]
    /\ config_data \in ResolverConfigs

SpecResolver == InitResolver /\ [][RtInitConfig("loop")]_vars

(***************************************************************************)
(* C9.  After validate_config, two bindings are reported under one         *)
(* conflict exactly when their key lists are equal as sets after           *)
(* normalize_key_combination.                                              *)
(***************************************************************************)
C9_ConflictsReported ==
    pc["loop"] # "rt_config" =>
       LET owners == ShortcutOwners(config_data)
           Together(a, b) ==
               \E c \in issues :
                   /\ \E m \in 1..Len(c.owners) : c.owners[m] = a
                   /\ \E m \in 1..Len(c.owners) : c.owners[m] = b
       IN \A i, j \in 1..Len(owners) :
             i < j =>
                ((KeySet(NormalizeKeyCombination(owners[i].keys))
                     = KeySet(NormalizeKeyCombination(owners[j].keys)))
                 <=> Together(owners[i].owner, owners[j].owner))


(***************************************************************************)
(* normalize_key_combination and key_combination_to_string on their own.   *)
(* The main thread holds a key list, normalizes it, and then normalizes    *)
(* the result again or converts it to its display string; a second thread  *)
(* normalizes a key list of its own.                                       *)
(***************************************************************************)
\* the key tokens a key list is made of: names in both cases, aliases, a
\* token with a blank, a digit, a letter and a function key
KeyTokens == {"ctrl", "Control", "shift", "win", "1", "a", "A ", "f1"}

\* the key lists of 1 to MaxKeys tokens, duplicates allowed
KeyInputs == UNION {[1..n -> KeyTokens] : n \in 1..MaxKeys}

\* the token a key stands for: key_aliases.get(key.lower().strip())
Canon(k) == KeyAlias(Strip(Lower(k)))

\* the tokens a key list stands for
CanonSet(keys) == {Canon(keys[i]) : i \in 1..Len(keys)}

\* str.upper() of a key token
Upper(k) ==
    CASE k = "f1" -> "F1"
      [] k = "a"  -> "A"
      [] k = "a " -> "A "
      [] k = "p"  -> "P"
      [] OTHER    -> k

\* str.capitalize() of a key token
Capitalize(k) ==
    CASE k = "a"       -> "A"
      [] k = "a "      -> "A "
      [] k = "p"       -> "P"
      [] k = "f1"      -> "F1"
      [] k = "alt"     -> "Alt"
      [] k = "cmd"     -> "Cmd"
      [] k = "control" -> "Control"
      [] k = "ctrl"    -> "Ctrl"
      [] k = "shift"   -> "Shift"
      [] k = "win"     -> "Win"
      [] OTHER         -> k

\* key.startswith('f') and key[1:].isdigit()
IsFunctionKey(k) == k = "f1"

\* key_combination_to_string: the name it gives a modifier
ModifierName(k) ==
    CASE k = "ctrl"  -> "Ctrl"
      [] k = "alt"   -> "Alt"
      [] k = "shift" -> "Shift"
      [] k = "cmd"   -> "Win"

\* key_combination_to_string: the name it gives another key
FormatKey(k) == IF IsFunctionKey(k) THEN Upper(k) ELSE Capitalize(k)

\* a conversion that names the keys in the order of the list
MutKeyCombinationToString(keys) ==
    [i \in 1..Len(keys) |->
        IF IsModifier(Lower(keys[Len(keys) + 1 - i]))
        THEN ModifierName(Lower(keys[Len(keys) + 1 - i]))
        ELSE FormatKey(keys[Len(keys) + 1 - i])]

\* key_combination_to_string: the names that '+' joins
KeyCombinationToString(keys) ==
    LET modifiers == SelectSeq([i \in 1..Len(keys) |-> Lower(keys[i])], IsModifier)
        other_keys == SelectSeq(keys, LAMBDA k : ~IsModifier(Lower(k)))
        Has(m) == \E i \in 1..Len(modifiers) : modifiers[i] = m
        sorted_modifiers == SelectSeq(modifier_order, Has)
        sorted_others == Sorted(other_keys)
    IN [i \in 1..Len(sorted_modifiers) |-> ModifierName(sorted_modifiers[i])]
       \o [i \in 1..Len(sorted_others) |-> FormatKey(sorted_others[i])]

\* normalized = normalize_key_combination(keys), of the key list the thread
\* holds
Normalize(t) ==
    /\ pc[t] = "keys_in"
    /\ res' = [res EXCEPT ![t] = NormalizeKeyCombination(arg[t].keys)]
    /\ Goto(t, "keys_out")
    /\ UNCHANGED <<clientVars, regVars, exc, req, first, hnew, regLocals, rtVars, calls>>

\* normalize_key_combination(normalized), of the list an earlier call returned
NormalizeAgain(t) ==
    /\ pc[t] = "keys_out"
    /\ res' = [res EXCEPT ![t] = NormalizeKeyCombination(res[t])]
    /\ Goto(t, "keys_twice")
    /\ UNCHANGED <<clientVars, regVars, exc, req, first, hnew, regLocals, rtVars, calls>>

\* key_combination_to_string(normalized)
DisplayKeys(t) ==
    /\ pc[t] = "keys_out"
    /\ fr' = [fr EXCEPT ![t].status = KeyCombinationToString(res[t])]
    /\ Goto(t, "keys_shown")
    /\ UNCHANGED <<clientVars, regVars, exc, res, req, first, hnew, regLocals, calls,
                   config_data, issues, soundpad_client, rt_running, soundpad_connected,
                   shortcuts_loaded, action_log, stats>>

\* the key lists that stand for the same tokens as `keys`, and the lists of
\* one key
Companions(keys) ==
    LET same == {k \in KeyTokens : Canon(k) \in CanonSet(keys)}
    IN {y \in UNION {[1..n -> same] : n \in 1..MaxKeys} : CanonSet(y) = CanonSet(keys)}
       \cup [1..1 -> KeyTokens]

KeysInitState ==
    /\ ClientInitState /\ srv = "up"
    /\ running = FALSE /\ registered_combinations = <<>> /\ hotkey_handlers = <<>>
    /\ kbHooks = {} /\ lock = "none" /\ calls = 0
    /\ it = [t \in Threads |-> 0]
    /\ RuntimeInitState /\ config_data = NoConfig
    /\ FramesInitState

\* one key list
InitKeys ==
    /\ KeysInitState
    /\ pc = [t \in Threads |-> IF t = "loop" THEN "keys_in" ELSE "idle"]
    /\ \E x \in KeyInputs :
          arg = [t \in Threads |-> IF t = "loop" THEN [NoArg EXCEPT !.keys = x] ELSE NoArg]

SpecKeys ==
    InitKeys /\ [][Normalize("loop") \/ NormalizeAgain("loop") \/ DisplayKeys("loop")]_vars

\* two key lists
InitKeyPairs ==
    /\ KeysInitState
    /\ pc = [t \in Threads |-> IF t \in {"loop", "aux"} THEN "keys_in" ELSE "idle"]
    /\ \E x \in KeyInputs : \E y \in Companions(x) :
          arg = [t \in Threads |->
                    CASE t = "loop" -> [NoArg EXCEPT !.keys = x]
                      [] t = "aux"  -> [NoArg EXCEPT !.keys = y]
                      [] OTHER      -> NoArg]

SpecKeyPairs == InitKeyPairs /\ [][Normalize("loop") \/ Normalize("aux")]_vars

(***************************************************************************)
(* C21.  normalize_key_combination is idempotent: normalizing the list it  *)
(* returned for a key list of 1 to 4 tokens returns the same list.         *)
(***************************************************************************)
C21_Idempotent ==
    [][(pc["loop"] = "keys_out" /\ pc'["loop"] = "keys_twice")
          => res'["loop"] = res["loop"]]_vars

\* <<"Control", "A ", "ctrl", "1">> has been normalized twice
C21_Witness ==
    /\ pc["loop"] = "keys_twice"
    /\ arg["loop"].keys = <<"Control", "A ", "ctrl", "1">>
    /\ res["loop"] = <<"ctrl", "1", "a">>

\* both threads have normalized their key lists
BothNormalized == pc["loop"] = "keys_out" /\ pc["aux"] = "keys_out"

\* the number of times key k is in the list
Occurrences(keys, k) == Cardinality({i \in 1..Len(keys) : keys[i] = k})

\* y is x in another order
IsPermutation(x, y) == \A k \in KeyTokens : Occurrences(x, k) = Occurrences(y, k)

(***************************************************************************)
(* C22.  normalize_key_combination returns the same list for a key list    *)
(* and for each of its permutations, and the lists it returns for two key  *)
(* lists are equal exactly when they hold the same set of tokens.          *)
(***************************************************************************)
C22_OrderIndependent ==
    BothNormalized =>
       /\ IsPermutation(arg["loop"].keys, arg["aux"].keys) => res["loop"] = res["aux"]
       /\ res["loop"] = res["aux"] <=> KeySet(res["loop"]) = KeySet(res["aux"])

\* <<"shift", "ctrl", "1">> and its permutation <<"1", "shift", "ctrl">> have
\* been normalized
C22_Witness ==
    /\ BothNormalized
    /\ arg["loop"].keys = <<"shift", "ctrl", "1">>
    /\ arg["aux"].keys = <<"1", "shift", "ctrl">>
    /\ res["loop"] = <<"ctrl", "shift", "1">>
    /\ res["aux"] = <<"ctrl", "shift", "1">>

\* the display string of the normalized key list has been built
KeysShown == pc["loop"] = "keys_shown"

\* the names of the tokens of the model in a display string, in the order
\* modifiers ctrl, alt, shift, cmd, then the other tokens alphabetically
DisplayOrder == <<"Ctrl", "Alt", "Shift", "Win", "1", "A", "F1">>

\* the name of a token in a display string
DisplayName(k) ==
    CASE k = "ctrl"  -> "Ctrl"
      [] k = "alt"   -> "Alt"
      [] k = "shift" -> "Shift"
      [] k = "cmd"   -> "Win"
      [] k = "1"     -> "1"
      [] k = "a"     -> "A"
      [] k = "f1"    -> "F1"

(***************************************************************************)
(* C23.  Whatever the order of the tokens of a key list, the display       *)
(* string of its normalization names each of its tokens once, the          *)
(* modifiers first in the order ctrl, alt, shift, cmd and then the other   *)
(* tokens alphabetically; for shift, ctrl, 1 in any order it is            *)
(* Ctrl+Shift+1.                                                           *)
(***************************************************************************)
C23_ModifiersFirst ==
    KeysShown =>
       LET out == fr["loop"].status
           tokens == CanonSet(arg["loop"].keys)
           Pos(n) == CHOOSE i \in 1..Len(DisplayOrder) : DisplayOrder[i] = n
       IN /\ Len(out) = Cardinality(tokens)
          /\ {out[i] : i \in 1..Len(out)} = {DisplayName(k) : k \in tokens}
          /\ \A i, j \in 1..Len(out) : i < j => Pos(out[i]) < Pos(out[j])
          /\ tokens = {"shift", "ctrl", "1"} => out = <<"Ctrl", "Shift", "1">>

\* the display string of <<"shift", "ctrl", "1">> is Ctrl+Shift+1
C23_Witness ==
    /\ KeysShown
    /\ arg["loop"].keys = <<"shift", "ctrl", "1">>
    /\ fr["loop"].status = <<"Ctrl", "Shift", "1">>

(***************************************************************************)
(* C24.  While a request of the hotkey thread is in flight, stop() on the  *)
(* main thread does not close the handle the exchange uses.                *)
(***************************************************************************)
C24_SendFinishes ==
    [][(InFlight("hook") /\ pc["loop"] = "un3_close" /\ pipe \in openH)
          => pipe \in openH']_vars

\* the statements of start() and of stop()
StartStopLabels == {"st_check", "st_iter", "st_set", "sp_check", "sp_set", "sp_iter", "sp_clear"}

\* the registry holds no binding and the backend no hook
RegistryEmpty == registered_combinations = <<>> /\ hotkey_handlers = <<>> /\ kbHooks = {}

(***************************************************************************)
(* C25.  On a registry with no binding and no hook, no statement of        *)
(* start() (called while not running) or of stop() raises an error,        *)
(* installs or removes a hook or stores a binding; start() sets running    *)
(* and stop() clears it.                                                   *)
(***************************************************************************)
C25_EmptyStartStop ==
    [][\A t \in ApiThreads :
          (/\ pc[t] \in StartStopLabels
           /\ <<pc'[t], it'[t]>> # <<pc[t], it[t]>>
           /\ RegistryEmpty
           /\ arg[t].n = 0
           /\ pc[t] = "st_check" => ~running)
          => /\ exc'[t] = "none"
             /\ RegistryEmpty'
             /\ pc[t] = "st_set" => running'
             /\ pc[t] = "sp_set" => ~running']_vars

\* start() and then stop() were called, and nothing else; stop() found the
\* listener running and is at the end of its loop over no handler
C25_Witness ==
    \E t \in ApiThreads :
       /\ pc[t] = "sp_clear"
       /\ calls = 2
       /\ exc[t] = "none"
       /\ RegistryEmpty
       /\ ~running

\* hook k is the hook of binding b: it has its hotkey string and its callback
Owns(b, k) == k.hs = KeysToHotkeyString(b.keys) /\ k.cb = b.callback

\* hook k is the hook of a binding of the sequence
OwnedIn(bindings, k) == \E i \in 1..Len(bindings) : Owns(bindings[i], k)

(***************************************************************************)
(* C26.  unregister_combination(id) returns False when no binding with     *)
(* that id is stored; otherwise it deletes the binding and returns True,   *)
(* and when it removes a handler while the listener is running, the hook   *)
(* it uninstalls is the one of the deleted binding: every hook of a        *)
(* binding that is still stored stays live, and no hook with the hotkey    *)
(* of the deleted binding that belongs to no stored binding stays.         *)
(***************************************************************************)
C26_UnregisterRemovesOwnHook ==
    [][\A t \in ApiThreads :
          (arg[t].op = "unregister" /\ pc'[t] # pc[t]) =>
             /\ (pc[t] = "unr_enter" /\ ~Stored(arg[t].id))
                   => (res'[t] = <<[found |-> FALSE]>>
                       /\ registered_combinations' = registered_combinations)
             /\ (pc[t] = "unr_enter" /\ Stored(arg[t].id))
                   => (~Stored(arg[t].id))'
             /\ (pc[t] \in {"rem_running", "rem_remove"} /\ pc'[t] = "api_ret")
                   => res'[t] = <<[found |-> TRUE]>>
             /\ pc[t] = "rem_remove" =>
                   \A k \in kbHooks :
                      /\ OwnedIn(registered_combinations, k) => k \in kbHooks'
                      /\ (/\ k.hs = KeysToHotkeyString(arg[t].keys)
                          /\ ~OwnedIn(registered_combinations, k))
                            => k \notin kbHooks']_vars

\* no thread is inside a method of the listener
NoCallInProgress == \A t \in Threads : pc[t] \in {"idle", "api_ret", "in_callback"}

\* the ids of the stored bindings
StoredIds == {registered_combinations[i].combo_id : i \in 1..Len(registered_combinations)}

(***************************************************************************)
(* C27.  No statement of enable_combination or disable_combination         *)
(* discards a binding, and whenever the listener is running and no call    *)
(* is in progress, a stored binding has a live hook with its hotkey and    *)
(* its callback exactly when it is enabled.                                *)
(***************************************************************************)
C27_HookIffEnabled ==
    /\ [][\A t \in ApiThreads :
             (arg[t].op \in {"enable", "disable"} /\ pc'[t] # pc[t]) => StoredIds' = StoredIds]_vars
    /\ []((running /\ NoCallInProgress) =>
             \A i \in 1..Len(registered_combinations) :
                registered_combinations[i].enabled
                   <=> \E k \in kbHooks : Owns(registered_combinations[i], k))

\* a thread is inside a method of the listener that was called for this id
InCallOn(id) == \E u \in Threads : arg[u].id = id /\ pc[u] \notin {"idle", "api_ret", "in_callback"}

(***************************************************************************)
(* C28.  The statement of register_combination that follows               *)
(* `if self.running:` installs a live hook with the hotkey and the         *)
(* callback of the new combination; a register_combination that finds the  *)
(* listener not running installs none; and when start() sets running,      *)
(* every enabled stored binding that no call in progress is about has a    *)
(* live hook with its hotkey and its callback, and no disabled one has.    *)
(***************************************************************************)
C28_HookOnRegister ==
    [][\A t \in ApiThreads :
          /\ (arg[t].op = "register" /\ pc[t] = "reg_install" /\ pc'[t] # pc[t])
                => \E k \in kbHooks' \ kbHooks :
                      k.hs = KeysToHotkeyString(arg[t].keys) /\ k.cb = arg[t].cb
          /\ (arg[t].op = "register" /\ pc[t] = "reg_running" /\ pc'[t] = "api_ret")
                => kbHooks' = kbHooks
          /\ (arg[t].op = "start" /\ pc[t] = "st_set" /\ pc'[t] # pc[t])
                => \A i \in 1..Len(registered_combinations) :
                      ~InCallOn(registered_combinations[i].combo_id)
                      => (registered_combinations[i].enabled
                            <=> \E k \in kbHooks : Owns(registered_combinations[i], k))]_vars

(***************************************************************************)
(* The commands that return a number: _handle_numeric_response applied to  *)
(* what send_request_safe returned ("" when the exchange failed), and      *)
(* what get_sound_file_count, get_volume, get_recording_position and       *)
(* get_recording_peak make of it.                                          *)
(***************************************************************************)
Digits == {"0", "2", "3", "4", "5"}

DigitValue(c) ==
    CASE c = "0" -> 0 [] c = "2" -> 2 [] c = "3" -> 3 [] c = "4" -> 4 [] c = "5" -> 5

\* the value of a sequence of digits
RECURSIVE Decimal(_)
Decimal(ds) ==
    IF ds = <<>> THEN 0 ELSE 10 * Decimal(SubSeq(ds, 1, Len(ds) - 1)) + DigitValue(ds[Len(ds)])

\* int(response) raises ValueError: the text is not a sequence of digits with
\* at most a sign before it
IntRaises(r) ==
    LET ds == IF r # <<>> /\ r[1] = "-" THEN Tail(r) ELSE r
    IN ds = <<>> \/ \E j \in 1..Len(ds) : ds[j] \notin Digits

\* int(response)
IntOf(r) == IF r[1] = "-" THEN 0 - Decimal(Tail(r)) ELSE Decimal(r)

\* _handle_numeric_response, from the response on
HandleNumericResponse(r) ==
    IF r = <<>>
    THEN -1
    ELSE IF StartsWith(r, <<"R">>)
    THEN -1
    ELSE IF IntRaises(r) THEN -1 ELSE IntOf(r)

\* max(0, n)
Max0(n) == IF n < 0 THEN 0 ELSE n

NumericCommands ==
    {"get_sound_file_count", "get_volume", "get_recording_position", "get_recording_peak"}

\* the four commands: get_sound_file_count returns what
\* _handle_numeric_response returns, the other three max(0, ...) of it
NumericCommand(t) ==
    /\ pc[t] = "numeric"
    /\ fr' = [fr EXCEPT ![t].status =
                 IF arg[t].op = "get_sound_file_count"
                 THEN HandleNumericResponse(res[t])
                 ELSE Max0(HandleNumericResponse(res[t]))]
    /\ Goto(t, "numeric_done")
    /\ UNCHANGED <<clientVars, regVars, exc, res, req, first, hnew, regLocals, calls,
                   config_data, issues, soundpad_client, rt_running, soundpad_connected,
                   shortcuts_loaded, action_log, stats>>

InitNumeric ==
    /\ ClientInitState /\ srv = "up"
    /\ running = FALSE /\ registered_combinations = <<>> /\ hotkey_handlers = <<>>
    /\ kbHooks = {} /\ lock = "none" /\ calls = 0
    /\ it = [t \in Threads |-> 0]
    /\ RuntimeInitState /\ config_data = NoConfig
    /\ pc = [t \in Threads |-> IF t = "loop" THEN "numeric" ELSE "idle"]
    /\ stk = [t \in Threads |-> <<>>]
    /\ req = [t \in Threads |-> NoReq]
    /\ first = [t \in Threads |-> <<>>]
    /\ hnew = [t \in Threads |-> 0]
    /\ exc = [t \in Threads |-> "none"]
    /\ \E r \in ResponseTexts : res = [t \in Threads |-> IF t = "loop" THEN r ELSE <<>>]
    /\ \E c \in NumericCommands :
          arg = [t \in Threads |-> IF t = "loop" THEN [NoArg EXCEPT !.op = c] ELSE NoArg]

SpecNumeric == InitNumeric /\ [][NumericCommand("loop")]_vars

(***************************************************************************)
(* C29.  Each of the four commands returns -1 when the exchange failed     *)
(* (no response), when the response is an error marker (it starts with R)  *)
(* and when the response is not the text of an integer.                    *)
(***************************************************************************)
C29_SentinelOnFailure ==
    pc["loop"] = "numeric_done" =>
       LET r == res["loop"]
           digits == IF r # <<>> /\ r[1] = "-" THEN Tail(r) ELSE r
           IsNumeral == digits # <<>> /\ \A j \in 1..Len(digits) : digits[j] \in Digits
       IN (r = <<>> \/ r[1] = "R" \/ ~IsNumeral) => fr["loop"].status = -1

(***************************************************************************)
(* C30.  The key sequence of every stored binding is in canonical form     *)
(* (what normalize_key_combination returns for it), and two stored         *)
(* bindings whose key lists stand for the same tokens have the same key    *)
(* sequence and the same hotkey string.                                    *)
(***************************************************************************)
C30_StoredCanonical ==
    /\ \A i \in 1..Len(registered_combinations) :
          registered_combinations[i].keys
             = NormalizeKeyCombination(registered_combinations[i].keys)
    /\ \A i, j \in 1..Len(registered_combinations) :
          CanonSet(registered_combinations[i].keys) = CanonSet(registered_combinations[j].keys)
          => /\ registered_combinations[i].keys = registered_combinations[j].keys
             /\ KeysToHotkeyString(registered_combinations[i].keys)
                   = KeysToHotkeyString(registered_combinations[j].keys)

(***************************************************************************)
(* get_conflicting_shortcuts on its own, called twice on a configuration.  *)
(***************************************************************************)
\* a search that sorts the shortcuts of the configuration in place
MutConflictsCall(t) ==
    /\ pc[t] = "conf_call"
    /\ it[t] < 2
    /\ it' = [it EXCEPT ![t] = @ + 1]
    /\ res' = [res EXCEPT ![t] = <<[conflicts |-> GetConflictingShortcuts(config_data)]>>]
    /\ config_data' =
          [config_data EXCEPT
              !.categories = [i \in 1..Len(@) |->
                                 [@[i] EXCEPT !.keyboard_shortcut = Sorted(@)]],
              !.stop_playback = Sorted(@)]
    /\ UNCHANGED <<clientVars, regVars, pc, stk, exc, req, first, hnew, arg, calls,
                   issues, soundpad_client, rt_running, soundpad_connected,
                   shortcuts_loaded, action_log, stats, fr>>

\* conflicts = config.get_conflicting_shortcuts()
ConflictsCall(t) ==
    /\ pc[t] = "conf_call"
    /\ it[t] < 2
    /\ it' = [it EXCEPT ![t] = @ + 1]
    /\ res' = [res EXCEPT ![t] = <<[conflicts |-> GetConflictingShortcuts(config_data)]>>]
    /\ UNCHANGED <<clientVars, regVars, pc, stk, exc, req, first, hnew, arg, calls, rtVars>>

InitConflicts ==
    /\ ClientInitState
    /\ running = FALSE /\ registered_combinations = <<>> /\ hotkey_handlers = <<>>
    /\ kbHooks = {} /\ lock = "none" /\ calls = 0
    /\ arg = [t \in Threads |-> NoArg]
    /\ it = [t \in Threads |-> 0]
    /\ RuntimeInitState
    /\ FramesInitState
    /\ pc = [t \in Threads |-> IF t = "loop" THEN "conf_call" ELSE "idle"]
    /\ config_data \in ResolverConfigs

SpecConflicts == InitConflicts /\ [][ConflictsCall("loop")]_vars

EnterCall(t) ==
    /\ pc[t] = "idle"
    /\ Call(t, "init", "entered")
    /\ UNCHANGED <<clientVars, req, first, hnew, exc, res, outsideClient>>

\* __enter__ returned: the block is left and __exit__ calls self.uninit();
\* if __enter__ raised there is no block and no __exit__
ExitCall(t) ==
    /\ pc[t] = "entered"
    /\ IF exc[t] = "none"
       THEN /\ Call(t, "un3_check", "idle")
            /\ UNCHANGED exc
       ELSE /\ Goto(t, "idle")
            /\ exc' = [exc EXCEPT ![t] = "none"]
    /\ UNCHANGED <<clientVars, req, first, hnew, res, outsideClient>>

OpenStep(t) ==
    \/ EnterCall(t)
    \/ ExitCall(t)
    \/ ClientInit(t)
    \/ ClientOpen(t)
    \/ ClientAssign(t)
    \/ UninitCheck(t, "un3")
    \/ UninitClose(t, "un3")
    \/ UninitNone(t, "un3")

SpecOpen == InitClient /\ [][(\E t \in ClientThreads : OpenStep(t)) \/ EnvStep]_vars

(***************************************************************************)
(* C32.  When the channel cannot be opened, init() called through          *)
(* __enter__ raises no exception.                                          *)
(***************************************************************************)
C32_OpenFailureIsResult ==
    \A t \in ClientThreads : pc[t] = "entered" => exc[t] = "none"


(***************************************************************************)
(* C33.  The pause callback asks for DoTogglePause only after its          *)
(* GetPlayStatus call has returned; the status it keeps is the one that    *)
(* call answered (STOPPED for anything that is not PLAYING or PAUSED, an   *)
(* empty answer included); and when the toggle succeeds the step adds      *)
(* exactly 1 to pauses_triggered and sets last_action from that status:    *)
(* PLAYING 'Paused sound', PAUSED 'Resumed sound', anything else 'Toggled  *)
(* pause/resume'.                                                          *)
(***************************************************************************)
C33_PauseDispatch ==
    [][/\ (req'["hook"].verb = "DoTogglePause" /\ req["hook"].verb # "DoTogglePause") =>
             /\ pc["hook"] = "cb_status"
             /\ req["hook"].verb = "GetPlayStatus"
             /\ fr["hook"].sent = 1
             /\ fr'["hook"].status =
                   IF res["hook"] \in {Wire(t, v) : t \in Threads \cup {"srv"},
                                                   v \in {"PLAYING", "PAUSED"}}
                   THEN res["hook"][1].val
                   ELSE "STOPPED"
       /\ (pc["hook"] = "cb_toggled" /\ pc'["hook"] = "cb_ret"
              /\ exc["hook"] = "none" /\ IsSuccess(res["hook"])) =>
             /\ stats'.pauses_triggered = stats.pauses_triggered + 1
             /\ stats'.sounds_played = stats.sounds_played
             /\ stats'.errors = stats.errors
             /\ stats'.last_action =
                   CASE fr["hook"].status = "PLAYING" -> "Paused sound"
                     [] fr["hook"].status = "PAUSED"  -> "Resumed sound"
                     [] OTHER                         -> "Toggled pause/resume"
      ]_vars

\* a pause callback read PLAYING, toggled with success and reported 'Paused sound'
C33_Witness ==
    /\ pc["hook"] = "cb_ret"
    /\ ~IsCategoryCallback(fr["hook"].cb)
    /\ fr["hook"].status = "PLAYING"
    /\ fr["hook"].sent = 2
    /\ stats.pauses_triggered = fr["hook"].p0 + 1
    /\ stats.last_action = "Paused sound"


(***************************************************************************)
(* C34.  With log_action running on the thread of the backend and on the   *)
(* main thread at once, an entry leaves the log only by eviction of the    *)
(* oldest beyond 50: in every state, each of the 50 entries logged last is *)
(* in the log.                                                             *)
(***************************************************************************)
C34_NoEntryLost ==
    LET n == LogCap - 1 + calls
    IN \A m \in 1..n :
          m > n - LogCap => \E i \in 1..Len(action_log) : action_log[i] = Numbered(m)


(***************************************************************************)
(* C35.  No update of the counters is lost: whenever no callback is        *)
(* running, sounds_played + pauses_triggered + errors equals the number of *)
(* callbacks that went past the gate and ended with the outcome of their   *)
(* request, each of which has logged exactly one outcome entry.            *)
(***************************************************************************)
OutcomeActions ==
    {"play_sound", "play_failed", "pause_sound", "resume_sound", "toggle_pause",
     "pause_failed"}

\* the entries of callbacks that ended with the outcome of a request
Dispatched ==
    {i \in 1..Len(action_log) :
        /\ action_log[i].action \in OutcomeActions
        /\ action_log[i].details # "Not connected to Soundpad"}

ConnectEnter(t) ==
    /\ pc[t] = "conn_enter"
    /\ IF it[t] >= 2
       THEN /\ soundpad_connected' = FALSE
            /\ fr' = [fr EXCEPT ![t].cb = "False"]
            /\ Goto(t, "conn_done")
            /\ UNCHANGED <<pipe, buf, req, soundpad_client>>
       ELSE /\ soundpad_client' = TRUE
            /\ pipe' = 0
            /\ buf' = IF pipe = 0 THEN buf ELSE [buf EXCEPT ![pipe] = <<>>]
            /\ req' = [req EXCEPT ![t] = IsAliveRequest]
            /\ fr' = [fr EXCEPT ![t].sent = @ + 1]
            /\ Call(t, "init", "conn_alive")
            /\ UNCHANGED soundpad_connected
    /\ UNCHANGED <<openH, broken, srv, regVars, exc, res, first, hnew, regLocals, calls,
                   config_data, issues, rt_running, shortcuts_loaded, action_log, stats>>

MutConnectAlive(t) ==
    /\ pc[t] = "conn_alive"
    /\ LET alive == exc[t] = "none" /\ IsSuccess(res[t])
       IN /\ soundpad_connected' = alive
          /\ fr' = [fr EXCEPT ![t].status = IF alive THEN "alive" ELSE "dead",
                              ![t].cb = IF alive THEN "True"
                                        ELSE IF it[t] < 2 THEN @ ELSE "False"]
          /\ Goto(t, IF alive THEN "conn_done"
                     ELSE IF it[t] < 2 THEN "conn_launch" ELSE "conn_done")
    /\ exc' = [exc EXCEPT ![t] = "none"]
    /\ res' = [res EXCEPT ![t] = <<>>]
    /\ req' = [req EXCEPT ![t] = NoReq]
    /\ UNCHANGED <<clientVars, regVars, first, hnew, regLocals, calls,
                   config_data, issues, soundpad_client, rt_running,
                   shortcuts_loaded, action_log, stats>>

\* after is_alive(): True sets the flag and returns True; False and `except
\* Exception` clear the flag, and go on to the auto-launch only `if
\* retry_count == 0`
ConnectAlive(t) ==
    /\ pc[t] = "conn_alive"
    /\ LET alive == exc[t] = "none" /\ IsSuccess(res[t])
       IN /\ soundpad_connected' = alive
          /\ fr' = [fr EXCEPT ![t].status = IF alive THEN "alive" ELSE "dead",
                              ![t].cb = IF alive THEN "True"
                                        ELSE IF it[t] = 0 THEN @ ELSE "False"]
          /\ Goto(t, IF alive THEN "conn_done"
                     ELSE IF it[t] = 0 THEN "conn_launch" ELSE "conn_done")
    /\ exc' = [exc EXCEPT ![t] = "none"]
    /\ res' = [res EXCEPT ![t] = <<>>]
    /\ req' = [req EXCEPT ![t] = NoReq]
    /\ UNCHANGED <<clientVars, regVars, first, hnew, regLocals, calls,
                   config_data, issues, soundpad_client, rt_running,
                   shortcuts_loaded, action_log, stats>>

\* _try_auto_launch_soundpad(): False when auto_launch is off (arg[t].n = 0),
\* the executable is missing, the launch failed or the process did not answer
\* in time; True after a test client got an answer from the launched process.
\* On True `return self.connect_to_soundpad(retry_count + 1)`, else return False
ConnectLaunch(t) ==
    /\ pc[t] = "conn_launch"
    /\ \E launched \in (IF arg[t].n = 1 THEN BOOLEAN ELSE {FALSE}) :
          IF launched
          THEN /\ IF srv = "up"
                  THEN UNCHANGED <<srv, broken, buf>>
                  ELSE /\ srv' = "up"
                       /\ UNCHANGED <<broken, buf>>
               /\ it' = [it EXCEPT ![t] = @ + 1]
               /\ fr' = [fr EXCEPT ![t].e = "launched"]
               /\ Goto(t, "conn_enter")
          ELSE /\ fr' = [fr EXCEPT ![t].cb = "False"]
               /\ Goto(t, "conn_done")
               /\ UNCHANGED <<srv, broken, buf, it>>
    /\ UNCHANGED <<pipe, openH, regVars, exc, res, req, first, hnew, arg, calls,
                   config_data, issues, soundpad_client, rt_running, soundpad_connected,
                   shortcuts_loaded, action_log, stats>>

ConnectStep(t) == ConnectEnter(t) \/ ConnectAlive(t) \/ ConnectLaunch(t)

\* start() calls connect_to_soundpad() with the default retry_count; the
\* configuration has auto_launch on or off
InitConnect ==
    /\ ClientInitState
    /\ FramesInitState
    /\ RuntimeInitState
    /\ running = FALSE /\ registered_combinations = <<>> /\ hotkey_handlers = <<>>
    /\ kbHooks = {} /\ lock = "none"
    /\ pc = [t \in Threads |-> IF t = "loop" THEN "conn_enter" ELSE "idle"]
    /\ \E a \in {0, 1} : arg = [t \in Threads |-> [NoArg EXCEPT !.n = a]]
    /\ it = [t \in Threads |-> 0]
    /\ calls = 0
    /\ config_data = NoConfig

NextConnect == ConnectStep("loop") \/ ClientStep("loop") \/ EnvStep

SpecConnect == InitConnect /\ [][NextConnect]_vars

FairConnect == SpecConnect /\ WF_vars(ConnectStep("loop") \/ ClientStep("loop"))

(***************************************************************************)
(* C36.  connect_to_soundpad returns; it makes at most 2 connection        *)
(* attempts and its recursion is at most one call deep; the second attempt *)
(* is only made after the first one failed and the auto-launch succeeded;  *)
(* and when it returns, the liveness flag and the value returned are the   *)
(* answer of the last attempt.                                             *)
(***************************************************************************)
C36_ConnectBounded ==
    /\ [](/\ fr["loop"].sent <= 2
          /\ it["loop"] <= 1
          /\ pc["loop"] = "conn_done" =>
                /\ fr["loop"].sent >= 1
                /\ soundpad_connected = (fr["loop"].status = "alive")
                /\ fr["loop"].cb = IF soundpad_connected THEN "True" ELSE "False")
    /\ [][fr'["loop"].sent = 2 /\ fr["loop"].sent = 1 =>
            /\ fr["loop"].status = "dead"
            /\ fr["loop"].e = "launched"
            /\ ~soundpad_connected]_vars
    /\ <>(pc["loop"] = "conn_done")

\* the first attempt failed, the auto-launch succeeded, the second attempt
\* got an answer and the call returned True with the flag set
C36_Witness ==
    /\ pc["loop"] = "conn_done"
    /\ fr["loop"].sent = 2
    /\ fr["loop"].e = "launched"
    /\ fr["loop"].cb = "True"
    /\ soundpad_connected


(***************************************************************************)
(* C37.  At most one handle of the pipe is open for a client at any time,  *)
(* and no open handle is out of the client's reach: every open handle is   *)
(* self.pipe, or the handle os.open has just returned to a thread that is  *)
(* about to store it in self.pipe after finding self.pipe empty.           *)
(***************************************************************************)
C37_OneHandle ==
    /\ Cardinality(openH) <= 1
    /\ \A h \in openH :
          \/ h = pipe
          \/ pipe = 0 /\ \E t \in ClientThreads : pc[t] = "assign" /\ hnew[t] = h


(***************************************************************************)
(* C38.  In every state, each stored binding has at most one live hook     *)
(* with its hotkey and its callback; start() on a listener that is running *)
(* raises and changes no hook; and enable_combination of a binding that is *)
(* enabled already changes no hook.                                        *)
(***************************************************************************)
HooksOf(b) == {k \in kbHooks : Owns(b, k)}

C38_OneHookPerBinding ==
    /\ [](\A i \in 1..Len(registered_combinations) :
             Cardinality(HooksOf(registered_combinations[i])) <= 1)
    /\ [][\A t \in ApiThreads :
             /\ (pc[t] = "st_check" /\ running /\ pc'[t] # pc[t])
                   => (exc'[t] = "RuntimeError" /\ kbHooks' = kbHooks
                       /\ hotkey_handlers' = hotkey_handlers)
             /\ (pc[t] = "en_enter" /\ Stored(arg[t].id) /\ Binding(arg[t].id).enabled
                   /\ pc'[t] # pc[t])
                   => (pc'[t] = "api_ret" /\ kbHooks' = kbHooks
                       /\ hotkey_handlers' = hotkey_handlers)]_vars


(***************************************************************************)
(* C39.  Once the runtime is past connect_to_soundpad, every step that     *)
(* changes soundpad_connected is the end of a probe of the loop and        *)
(* appends exactly one entry, "disconnected" when the flag falls and       *)
(* "reconnected" when it rises; a probe that leaves the flag as it was     *)
(* leaves the log as it was; and no other step appends such an entry.      *)
(***************************************************************************)
ConnectionActions == {"disconnected", "reconnected"}

\* the step has appended exactly one entry, with this action
AppendedOne(action) ==
    /\ Len(action_log') = Len(action_log) + 1
    /\ SubSeq(action_log', 1, Len(action_log)) = action_log
    /\ action_log'[Len(action_log')].action = action

C40_InstallFailureSwallowed ==
    [][\A t \in ApiThreads :
          /\ (pc[t] = "reg_install" /\ pc'[t] # pc[t] /\ kbHooks' = kbHooks) =>
                /\ exc'[t] = "none"
                /\ pc'[t] = "api_ret"
                /\ res'[t] = <<[combo_id |-> arg[t].id]>>
                /\ hotkey_handlers' = hotkey_handlers
                /\ registered_combinations' = registered_combinations
                /\ Stored(arg[t].id) /\ Binding(arg[t].id).enabled
          /\ (/\ pc[t] = "st_iter"
              /\ Len(registered_combinations) = arg[t].n
              /\ it[t] < Len(registered_combinations)
              /\ registered_combinations[it[t] + 1].enabled
              /\ it'[t] # it[t]
              /\ kbHooks' = kbHooks) =>
                /\ exc'[t] = "none"
                /\ pc'[t] = "st_iter"
                /\ it'[t] = it[t] + 1
                /\ hotkey_handlers' = hotkey_handlers
                /\ registered_combinations' = registered_combinations
          /\ (pc[t] = "st_set" /\ pc'[t] # pc[t]) =>
                (running' /\ exc'[t] = "none" /\ pc'[t] = "api_ret")]_vars

\* start() has returned without raising and the listener is running: of two
\* enabled bindings one has its hook, the other one, whose install failed,
\* has none
C40_Witness ==
    /\ pc["loop"] = "api_ret" /\ arg["loop"].op = "start" /\ exc["loop"] = "none"
    /\ pc["aux"] = "idle"
    /\ running
    /\ Len(registered_combinations) = 2
    /\ Len(hotkey_handlers) = 1
    /\ \A i \in 1..2 : registered_combinations[i].enabled
    /\ \E i, j \in 1..2 :
          /\ HooksOf(registered_combinations[i]) = {}
          /\ Cardinality(HooksOf(registered_combinations[j])) = 1

=============================================================================
